---- MODULE Spec2Model ----
(***************************************************************************)
(* State-machine model of the data-synchronisation layer of the community  *)
(* chat application: the Dashboard message feed (history load, live INSERT *)
(* subscription, send) against the hosted backend, and the mock session    *)
(* store (login, signup, logout).                                          *)
(***************************************************************************)
EXTENDS Integers, Sequences, FiniteSets, TLC

\* ------------------------------------------------------------------ bounds
\* Messages committed to the backend in one run (also the pool of row ids).
MaxMsgs == 2
\* Runs of the Dashboard feed effect per client (mounts + user changes).
MaxGen == 2
\* login / signup calls in flight at once.
MaxInFlight == 2
\* Users added to MOCK_USERS by signup in one run.
MaxSignups == 2
\* Avatar files sent to storage in one run.
MaxUploads == 2

\* ------------------------------------------------------------------ values
\* null for object-typed values, and for string-typed values.
Null == [null |-> TRUE]
NullStr == "<null>"

\* Browser clients that can show a Dashboard.
AllFeeds == {"A", "B"}
\* Auth identities; NoUser is the `user` of a signed-out client.
Users == {"u1", "u2"}
NoUser == NullStr
\* The identity a client signs in as.
UserOf(f) == IF f = "A" THEN "u1" ELSE "u2"
EmailOf(u) == IF u = "u1" THEN "user1@example.com" ELSE "user2@example.com"
\* raw_user_meta_data->>'full_name' of the identity (absent for u2).
FullNameOf(u) == IF u = "u1" THEN "Ann" ELSE NullStr
\* A row of public.profiles with every column ProfilePage reads.
ProfileRow(id, display_name, avatar_url) ==
    [user_id |-> id, display_name |-> display_name, avatar_url |-> avatar_url,
     bio |-> NullStr, about |-> NullStr, class |-> NullStr, section |-> NullStr,
     batch |-> NullStr, hobby |-> NullStr, website |-> NullStr, social |-> NullStr,
     email |-> id, is_admin |-> FALSE, created_at |-> 1]
\* Texts typed into the message box; "  " trims to the empty string.
Texts == {"hi", "  "}

VARIABLES
    \* backend
    msgTable,     \* rows of public.messages, in commit order
    profTable,    \* rows of public.profiles, in insertion order
    \* per client Dashboard
    clients,      \* the clients of this run
    mounted,      \* is the Dashboard component mounted
    user,         \* useAuth().user (its id, or NoUser)
    messages,     \* useState<Message[]>
    profiles,     \* useState<Profile[]>
    newMessage,   \* useState('')
    gen,          \* number of runs of the feed effect (names its closure/channel)
    mountGen,     \* value of gen when the current component instance mounted
    chanState,    \* messagesChannel: none / joining / joined / closed
    chanQueue,    \* notifications the backend has queued for the channel
    fetches,      \* fetchData calls in flight
    handlers,     \* INSERT handler invocations in flight
    sends,        \* handleSendMessage inserts in flight
    nSends,       \* inserts into public.messages issued so far, by anyone
    toasts,       \* toast() calls, per client
    \* history of the run (not read by the program)
    delivered,    \* ids handed to the INSERT handler of the current instance, in order
    appended,     \* ids the INSERT handlers have appended to the current instance
    loaded,       \* has a fetchData call set the list of the current instance
    baseLen       \* rows in public.messages when the current instance mounted

feedVars == <<msgTable, profTable, clients, mounted, user, messages, profiles,
              newMessage, gen, mountGen, chanState, chanQueue, fetches, handlers,
              sends, nSends, toasts, delivered, appended, loaded, baseLen>>

hist == <<delivered, appended, loaded, baseLen>>

VARIABLES
    \* AuthProvider (session store)
    authUser,     \* useState<User | null>
    loading,      \* useState(true)
    localStorage, \* the entries of window.localStorage, as <<key, text>> pairs
    MOCK_USERS,   \* the module's array of user records
    authCalls,    \* login / signup calls waiting in their setTimeout
    lastResult,   \* how the last finished call settled its promise
    \* history of the run (not read by the program)
    credentials   \* the password each signed-up email was registered with

authVars == <<authUser, loading, localStorage, MOCK_USERS, authCalls, lastResult,
              credentials>>

VARIABLES
    \* ProfilePage
    pageOpen,       \* is the ProfilePage component mounted
    userId,         \* useParams().userId (NullStr on the route without it)
    profileUser,    \* useState<Profile | null>
    profileData,    \* useState({name, bio, ..., avatar}) : the edit form
    isEditing,      \* useState(false)
    uploading,      \* useState(false)
    profileFetches, \* fetchProfile calls in flight
    uploads,        \* handleImageUpload calls in flight
    avatars,        \* the object paths in the storage bucket 'avatars'
    storageCalls,   \* the storage requests issued so far, in order
    toast,          \* title of the last toast() of ProfilePage / ProfileSetup
    \* ProfileSetup
    setups,         \* handleSubmit calls waiting for the profiles update
    \* Dashboard sidebar
    searchTerm,     \* useState(searchParams.get('search') || '')
    \* history of the run (not read by the program)
    sessionAtReload, \* the session that was current when the page was last loaded
    lastSaved       \* the form values of the last handleSave that succeeded

pageVars == <<pageOpen, userId, profileUser, profileData, isEditing, uploading,
              profileFetches, uploads, avatars, storageCalls, toast, setups,
              searchTerm, sessionAtReload, lastSaved>>

vars == <<feedVars, authVars, pageVars>>

\* ------------------------------------------------------------------ helpers
Range(s) == {s[i] : i \in DOMAIN s}

\* `x && ...` on a text column: null and the empty string are falsy.
Truthy(x) == x # NullStr /\ x # ""

\* String.prototype.trim on the texts of the model.
Trim(t) == IF t = "  " THEN "" ELSE t

\* handle_new_user(): the profile row the trigger inserts for a new identity.
handle_new_user(id, full_name, email) ==
    [user_id |-> id,
     display_name |-> IF full_name # NullStr THEN full_name ELSE email,
     email |-> email,
     avatar_url |-> NullStr]

\* .select('user_id, display_name, avatar_url')
ProfileCols(p) ==
    [user_id |-> p.user_id, display_name |-> p.display_name, avatar_url |-> p.avatar_url]

\* .order('created_at', { ascending: true }): every order of the rows that is
\* ascending in created_at (the backend is free in the order of equal timestamps).
RECURSIVE Perms(_)
Perms(S) ==
    IF S = {} THEN {<<>>}
    ELSE UNION {{<<x>> \o p : p \in Perms(S \ {x})} : x \in S}

OrderByCreatedAt(rows) ==
    {p \in Perms(Range(rows)) :
        \A i \in 1..(Len(p) - 1) : p[i].created_at <= p[i + 1].created_at}

\* new Map(allProfiles.map(p => [p.user_id, p])).get(uid) || null : the last row wins.
ProfileMapGet(allProfiles, uid) ==
    LET hits == {i \in DOMAIN allProfiles : allProfiles[i].user_id = uid}
    IN  IF hits = {} THEN Null
        ELSE allProfiles[CHOOSE i \in hits : \A j \in hits : j <= i]

\* A join that keeps only the messages whose author has a profile row.
RECURSIVE MergeMessages_inner(_, _)
MergeMessages_inner(messagesData, allProfiles) ==
    IF messagesData = <<>> THEN <<>>
    ELSE LET msg == Head(messagesData)
             rest == MergeMessages_inner(Tail(messagesData), allProfiles)
         IN  IF ProfileMapGet(allProfiles, msg.user_id) = Null THEN rest
             ELSE <<[id |-> msg.id, user_id |-> msg.user_id, content |-> msg.content,
                     created_at |-> msg.created_at,
                     profiles |-> ProfileMapGet(allProfiles, msg.user_id)]>> \o rest

\* messagesData.map(msg => ({...msg, profiles: profileMap.get(msg.user_id) || null}))
MergeMessages(messagesData, allProfiles) ==
    [i \in DOMAIN messagesData |->
        [id |-> messagesData[i].id,
         user_id |-> messagesData[i].user_id,
         content |-> messagesData[i].content,
         created_at |-> messagesData[i].created_at,
         profiles |-> ProfileMapGet(allProfiles, messagesData[i].user_id)]]

\* .from('profiles').select(...).eq('user_id', uid).single(): data is null unless
\* exactly one row matches.
SingleProfile(uid) ==
    LET hits == {i \in DOMAIN profTable : profTable[i].user_id = uid}
    IN  IF Cardinality(hits) = 1
        THEN ProfileCols(profTable[CHOOSE i \in hits : TRUE])
        ELSE Null

\* .from('messages').select(...).eq('id', id).single()
SingleMessage(id) ==
    LET hits == {i \in DOMAIN msgTable : msgTable[i].id = id}
    IN  IF Cardinality(hits) = 1 THEN msgTable[CHOOSE i \in hits : TRUE] ELSE Null

\* A state update of a task started by effect run g of client f reaches a
\* component only while the instance that started it is still mounted.
InstanceAlive(f, g) == mounted[f] /\ g > mountGen[f]

\* supabase.removeChannel(messagesChannel) in the effect cleanup (there is a
\* cleanup only when the previous effect run got past `if (!user) return`).
CleanedChannel(f) ==
    IF chanState[f] \in {"joining", "joined"} THEN "closed" ELSE chanState[f]

\* The body of the feed effect for user u, after the previous run's cleanup.
FeedEffect(f, u) ==
    IF u = NoUser
    THEN /\ chanState' = [chanState EXCEPT ![f] = CleanedChannel(f)]
         /\ chanQueue' = [chanQueue EXCEPT ![f] = <<>>]
         /\ UNCHANGED <<gen, fetches>>
    ELSE /\ gen' = [gen EXCEPT ![f] = @ + 1]
         /\ fetches' = fetches \cup
                {[f |-> f, g |-> gen[f] + 1, pc |-> "messages", data |-> <<>>]}
         /\ chanState' = [chanState EXCEPT ![f] = "joining"]
         /\ chanQueue' = [chanQueue EXCEPT ![f] = <<>>]

\* ------------------------------------------------------------------ Dashboard
\* ProtectedRoute: the Dashboard is rendered only for a signed-in user.
ProtectedRoute(u) == u # NoUser

\* The Dashboard component mounts: fresh state, then the feed effect runs.
Mount(f) ==
    /\ ~mounted[f]
    /\ ProtectedRoute(user[f])
    /\ gen[f] < MaxGen
    /\ mounted' = [mounted EXCEPT ![f] = TRUE]
    /\ messages' = [messages EXCEPT ![f] = <<>>]
    /\ profiles' = [profiles EXCEPT ![f] = <<>>]
    /\ newMessage' = [newMessage EXCEPT ![f] = ""]
    /\ mountGen' = [mountGen EXCEPT ![f] = gen[f]]
    /\ FeedEffect(f, user[f])
    /\ delivered' = [delivered EXCEPT ![f] = <<>>]
    /\ appended' = [appended EXCEPT ![f] = {}]
    /\ loaded' = [loaded EXCEPT ![f] = FALSE]
    /\ baseLen' = [baseLen EXCEPT ![f] = Len(msgTable)]
    /\ UNCHANGED <<msgTable, profTable, clients, user, handlers, sends, nSends, toasts>>
    /\ UNCHANGED <<authVars, pageVars>>

\* The component unmounts: the effect cleanup runs and the component's state is
\* gone. React drops the state updates of an unmounted component, so the fetchData
\* calls and INSERT handlers of this instance can change nothing any more and leave
\* the model here; its inserts in flight still reach the backend.
Unmount(f) ==
    /\ mounted[f]
    /\ mounted' = [mounted EXCEPT ![f] = FALSE]
    /\ chanState' = [chanState EXCEPT ![f] = CleanedChannel(f)]
    /\ chanQueue' = [chanQueue EXCEPT ![f] = <<>>]
    /\ messages' = [messages EXCEPT ![f] = <<>>]
    /\ profiles' = [profiles EXCEPT ![f] = <<>>]
    /\ newMessage' = [newMessage EXCEPT ![f] = ""]
    /\ fetches' = {t \in fetches : t.f # f}
    /\ handlers' = {h \in handlers : h.f # f}
    /\ delivered' = [delivered EXCEPT ![f] = <<>>]
    /\ appended' = [appended EXCEPT ![f] = {}]
    /\ loaded' = [loaded EXCEPT ![f] = FALSE]
    /\ baseLen' = [baseLen EXCEPT ![f] = 0]
    /\ UNCHANGED <<msgTable, profTable, clients, user, gen, mountGen, sends, nSends,
                   toasts>>
    /\ UNCHANGED <<authVars, pageVars>>

\* useAuth().user becomes another object (login, logout, or a profile update, which
\* gives a new object for the same identity): with the Dashboard mounted, the
\* `[user]` dependency runs the cleanup and the effect again. A sign-out unmounts
\* the Dashboard first (Unmount), since ProtectedRoute navigates away.
SetUser(f, u) ==
    /\ u \in {NoUser, UserOf(f)}
    /\ ~(u = NoUser /\ user[f] = NoUser)
    /\ (mounted[f] => ProtectedRoute(u) /\ gen[f] < MaxGen)
    /\ user' = [user EXCEPT ![f] = u]
    /\ IF mounted[f]
       THEN FeedEffect(f, u)
       ELSE UNCHANGED <<gen, fetches, chanState, chanQueue>>
    /\ UNCHANGED <<msgTable, profTable, clients, mounted, messages, profiles,
                   newMessage, mountGen, handlers, sends, nSends, toasts,
                   hist>>
    /\ UNCHANGED <<authVars, pageVars>>

\* onChange of the message box: setNewMessage(e.target.value).
TypeMessage(f, t) ==
    /\ mounted[f]
    /\ newMessage[f] # t
    /\ newMessage' = [newMessage EXCEPT ![f] = t]
    /\ UNCHANGED <<msgTable, profTable, clients, mounted, user, messages, profiles,
                   gen, mountGen, chanState, chanQueue, fetches, handlers, sends,
                   nSends, toasts, hist>>
    /\ UNCHANGED <<authVars, pageVars>>

\* A handleSendMessage that also appends the message to the local list.
handleSendMessage_local(f) ==
    /\ mounted[f]
    /\ nSends < MaxMsgs
    /\ ~(Trim(newMessage[f]) = "" \/ user[f] = NoUser)
    /\ sends' = sends \cup
            {[f |-> f, g |-> gen[f], user_id |-> user[f],
              content |-> newMessage[f], n |-> nSends + 1]}
    /\ nSends' = nSends + 1
    /\ messages' = [messages EXCEPT ![f] =
            Append(@, [id |-> 0, user_id |-> user[f], content |-> newMessage[f],
                       created_at |-> 0, profiles |-> Null])]
    /\ UNCHANGED <<msgTable, profTable, clients, mounted, user, profiles,
                   newMessage, gen, mountGen, chanState, chanQueue, fetches, handlers,
                   toasts, hist>>
    /\ UNCHANGED <<authVars, pageVars>>

\* handleSendMessage up to its await: the guard, then the insert is issued.
handleSendMessage(f) ==
    /\ mounted[f]
    /\ nSends < MaxMsgs
    /\ \/ /\ (Trim(newMessage[f]) = "" \/ user[f] = NoUser)
          /\ UNCHANGED <<sends, nSends>>
       \/ /\ ~(Trim(newMessage[f]) = "" \/ user[f] = NoUser)
          /\ sends' = sends \cup
                {[f |-> f, g |-> gen[f], user_id |-> user[f],
                  content |-> newMessage[f], n |-> nSends + 1]}
          /\ nSends' = nSends + 1
    /\ UNCHANGED <<msgTable, profTable, clients, mounted, user, messages, profiles,
                   newMessage, gen, mountGen, chanState, chanQueue, fetches, handlers,
                   toasts, hist>>
    /\ UNCHANGED <<authVars, pageVars>>

\* The backend commits a row of public.messages: a fresh id, a creation timestamp
\* not before the previous row's, and an INSERT notification queued for every
\* channel that has joined.
CommitMessage(id, uid, content, ts) ==
    /\ msgTable' = Append(msgTable,
            [id |-> id, user_id |-> uid, content |-> content, created_at |-> ts])
    /\ chanQueue' = [c \in AllFeeds |->
            IF chanState[c] = "joined" THEN Append(chanQueue[c], id) ELSE chanQueue[c]]

\* created_at defaults to now(): not before the previous row's, possibly equal to it.
NextCreatedAt ==
    IF msgTable = <<>> THEN {1}
    ELSE {msgTable[Len(msgTable)].created_at, msgTable[Len(msgTable)].created_at + 1}
FreshIds == (1..MaxMsgs) \ {msgTable[i].id : i \in DOMAIN msgTable}

\* The insert of handleSendMessage is answered and the handler resumes:
\* on error a toast, otherwise setNewMessage('').
SendReturn(s) ==
    /\ s \in sends
    /\ sends' = sends \ {s}
    /\ \/ \* the backend answers with an error: nothing is committed
          /\ toasts' = [toasts EXCEPT ![s.f] = Append(@, "Failed to send message")]
          /\ UNCHANGED <<msgTable, chanQueue, newMessage>>
       \/ \* the row is committed
          /\ \E id \in FreshIds, ts \in NextCreatedAt :
                CommitMessage(id, s.user_id, s.content, ts)
          /\ newMessage' = [newMessage EXCEPT ![s.f] =
                IF InstanceAlive(s.f, s.g) THEN "" ELSE @]
          /\ UNCHANGED toasts
    /\ UNCHANGED <<profTable, clients, mounted, user, messages, profiles, gen,
                   mountGen, chanState, fetches, handlers, nSends, hist>>
    /\ UNCHANGED <<authVars, pageVars>>

\* The backend acknowledges the join of .subscribe(): from now on the channel
\* receives the INSERT notifications of rows committed later.
ChannelJoined(f) ==
    /\ chanState[f] = "joining"
    /\ chanState' = [chanState EXCEPT ![f] = "joined"]
    /\ UNCHANGED <<msgTable, profTable, clients, mounted, user, messages, profiles,
                   newMessage, gen, mountGen, chanQueue, fetches, handlers, sends,
                   nSends, toasts, hist>>
    /\ UNCHANGED <<authVars, pageVars>>

\* The next notification reaches the client and the INSERT handler is invoked:
\* it runs up to its first await (the re-fetch of the row by payload.new.id).
Deliver(f) ==
    /\ chanState[f] = "joined"
    /\ chanQueue[f] # <<>>
    /\ chanQueue' = [chanQueue EXCEPT ![f] = Tail(@)]
    /\ handlers' = handlers \cup
            {[f |-> f, g |-> gen[f], id |-> Head(chanQueue[f]), pc |-> "refetch",
              data |-> Null]}
    /\ delivered' = [delivered EXCEPT ![f] = Append(@, Head(chanQueue[f]))]
    /\ UNCHANGED <<msgTable, profTable, clients, mounted, user, messages, profiles,
                   newMessage, gen, mountGen, chanState, fetches, sends, nSends,
                   toasts, appended, loaded, baseLen>>
    /\ UNCHANGED <<authVars, pageVars>>

\* The re-fetch of the INSERT handler is answered: without data the handler ends,
\* otherwise it issues the profile lookup.
HandlerRefetch(h) ==
    /\ h \in handlers
    /\ h.pc = "refetch"
    /\ \E ok \in BOOLEAN :
        LET newMessageData == IF ok THEN SingleMessage(h.id) ELSE Null
        IN  handlers' = IF newMessageData # Null
                        THEN (handlers \ {h}) \cup
                                {[h EXCEPT !.pc = "profile", !.data = newMessageData]}
                        ELSE handlers \ {h}
    /\ UNCHANGED <<msgTable, profTable, clients, mounted, user, messages, profiles,
                   newMessage, gen, mountGen, chanState, chanQueue, fetches, sends,
                   nSends, toasts, hist>>
    /\ UNCHANGED <<authVars, pageVars>>

\* const messageWithProfile = {...newMessageData, profiles: profile || null}
MessageWithProfile(newMessageData, profile) ==
    [id |-> newMessageData.id,
     user_id |-> newMessageData.user_id,
     content |-> newMessageData.content,
     created_at |-> newMessageData.created_at,
     profiles |-> profile]

\* The profile lookup of the INSERT handler is answered:
\* setMessages(prev => [...prev, messageWithProfile]).
HandlerProfile(h) ==
    /\ h \in handlers
    /\ h.pc = "profile"
    /\ handlers' = handlers \ {h}
    /\ \E ok \in BOOLEAN :
        LET profile == IF ok THEN SingleProfile(h.data.user_id) ELSE Null
        IN  messages' = [messages EXCEPT ![h.f] =
                IF InstanceAlive(h.f, h.g)
                THEN Append(@, MessageWithProfile(h.data, profile))
                ELSE @]
    /\ appended' = [appended EXCEPT ![h.f] =
            IF InstanceAlive(h.f, h.g) THEN @ \cup {h.id} ELSE @]
    /\ UNCHANGED <<msgTable, profTable, clients, mounted, user, profiles, newMessage,
                   gen, mountGen, chanState, chanQueue, fetches, sends, nSends,
                   toasts, delivered, loaded, baseLen>>
    /\ UNCHANGED <<authVars, pageVars>>

\* fetchData: the messages query is answered; on error fetchData returns.
FetchMessages(t) ==
    /\ t \in fetches
    /\ t.pc = "messages"
    /\ \/ fetches' = fetches \ {t}
       \/ \E messagesData \in OrderByCreatedAt(msgTable) :
            fetches' = (fetches \ {t}) \cup
                {[t EXCEPT !.pc = "profiles", !.data = messagesData]}
    /\ UNCHANGED <<msgTable, profTable, clients, mounted, user, messages, profiles,
                   newMessage, gen, mountGen, chanState, chanQueue, handlers, sends,
                   nSends, toasts, hist>>
    /\ UNCHANGED <<authVars, pageVars>>

\* fetchData: the profiles query of the join is answered; on error fetchData
\* returns, otherwise setMessages(messagesWithProfiles) and the sidebar query.
FetchJoin(t) ==
    /\ t \in fetches
    /\ t.pc = "profiles"
    /\ \/ /\ fetches' = fetches \ {t}
          /\ UNCHANGED <<messages, loaded>>
       \/ LET allProfiles == [i \in DOMAIN profTable |-> ProfileCols(profTable[i])]
          IN  /\ messages' = [messages EXCEPT ![t.f] =
                    IF InstanceAlive(t.f, t.g)
                    THEN MergeMessages(t.data, allProfiles) ELSE @]
              /\ loaded' = [loaded EXCEPT ![t.f] = InstanceAlive(t.f, t.g) \/ @]
              /\ fetches' = (fetches \ {t}) \cup {[t EXCEPT !.pc = "sidebar"]}
    /\ UNCHANGED <<msgTable, profTable, clients, mounted, user, profiles, newMessage,
                   gen, mountGen, chanState, chanQueue, handlers, sends, nSends,
                   toasts, delivered, appended, baseLen>>
    /\ UNCHANGED <<authVars, pageVars>>

\* fetchData: the sidebar query is answered: setProfiles(profilesData || []),
\* or only a console.error.
FetchSidebar(t) ==
    /\ t \in fetches
    /\ t.pc = "sidebar"
    /\ fetches' = fetches \ {t}
    /\ \/ UNCHANGED profiles
       \/ profiles' = [profiles EXCEPT ![t.f] =
                IF InstanceAlive(t.f, t.g) THEN profTable ELSE @]
    /\ UNCHANGED <<msgTable, profTable, clients, mounted, user, messages, newMessage,
                   gen, mountGen, chanState, chanQueue, handlers, sends, nSends,
                   toasts, hist>>
    /\ UNCHANGED <<authVars, pageVars>>

\* on_auth_user_created: an identity is registered and the trigger inserts its
\* profile row.
on_auth_user_created(u) ==
    /\ \A i \in DOMAIN profTable : profTable[i].user_id # u
    /\ profTable' = Append(profTable, handle_new_user(u, FullNameOf(u), EmailOf(u)))
    /\ UNCHANGED <<msgTable, clients, mounted, user, messages, profiles, newMessage,
                   gen, mountGen, chanState, chanQueue, fetches, handlers, sends,
                   nSends, toasts, hist>>
    /\ UNCHANGED <<authVars, pageVars>>

\* ------------------------------------------------------------------ AuthProvider
ALLOWED_EMAILS ==
    <<"admin@example.com", "user1@example.com", "user2@example.com", "test@example.com">>

SeedUsers ==
    <<[id |-> "1", name |-> "Admin User", email |-> "admin@example.com",
       avatar |-> "https://images.unsplash.com/photo-1472099645785-5658abf4ff4e?w=150&h=150&fit=crop&crop=face",
       bio |-> "Community administrator", isAdmin |-> TRUE],
      [id |-> "2", name |-> "John Doe", email |-> "user1@example.com",
       avatar |-> "https://images.unsplash.com/photo-1507003211169-0a1dd7228f2d?w=150&h=150&fit=crop&crop=face",
       bio |-> "Software developer passionate about building great products"],
      [id |-> "3", name |-> "Jane Smith", email |-> "user2@example.com",
       avatar |-> "https://images.unsplash.com/photo-1494790108755-2616b612b5c1?w=150&h=150&fit=crop&crop=face",
       bio |-> "Designer and creative thinker"]>>

\* Inputs of the calls: a seeded email, an allow-listed email without a user record,
\* and an email that is not on the allow-list.
Emails == {"admin@example.com", "test@example.com", "nobody@example.com"}
Passwords == {"pw1", "pw2"}
Names == {"Tess"}
\* Math.random().toString(36).substr(2, 9)
RandomIds == {"k3x9q1z7a", "p0m2w8r5c"}

\* JSON.stringify(user): the text, as its key/value members; a boolean is written
\* as the literal true / false. An absent optional field has no member.
JSON_stringify(u) ==
    {<<k, IF k = "isAdmin" THEN (IF u[k] THEN "true" ELSE "false") ELSE u[k]>> :
        k \in DOMAIN u}

\* JSON.parse(text)
JSON_parse(text) ==
    [k \in {m[1] : m \in text} |->
        LET v == (CHOOSE m \in text : m[1] = k)[2]
        IN  IF k = "isAdmin" THEN v = "true" ELSE v]

\* localStorage.getItem('currentUser'), setItem, removeItem.
HasItem(key) == \E e \in localStorage : e[1] = key
GetItem(key) == (CHOOSE e \in localStorage : e[1] = key)[2]
SetItem(key, text) == {e \in localStorage : e[1] # key} \cup {<<key, text>>}
RemoveItem(key) == {e \in localStorage : e[1] # key}

\* array.includes(x)
Includes(array, x) == \E i \in DOMAIN array : array[i] = x

\* MOCK_USERS.find(u => u.email === email): the first match, or undefined.
FindByEmail(email) ==
    LET hits == {i \in DOMAIN MOCK_USERS : MOCK_USERS[i].email = email}
    IN  IF hits = {} THEN Null
        ELSE MOCK_USERS[CHOOSE i \in hits : \A j \in hits : i <= j]

\* The mount effect of AuthProvider: the stored session is restored.
AuthProviderEffect ==
    /\ loading
    /\ authUser' = IF HasItem("currentUser")
                   THEN JSON_parse(GetItem("currentUser")) ELSE authUser
    /\ loading' = FALSE
    /\ UNCHANGED <<localStorage, MOCK_USERS, authCalls, lastResult, credentials>>
    /\ UNCHANGED <<feedVars, pageVars>>

\* login(email, password), up to its await.
login(email, password) ==
    /\ ~loading
    /\ Cardinality(authCalls) < MaxInFlight
    /\ authCalls' = authCalls \cup
            {[op |-> "login", email |-> email, password |-> password, name |-> NullStr]}
    /\ UNCHANGED <<authUser, loading, localStorage, MOCK_USERS, lastResult, credentials>>
    /\ UNCHANGED <<feedVars, pageVars>>

\* login after the timeout: the lookup by email, then the throw or the session.
loginResume(c) ==
    /\ c \in authCalls
    /\ c.op = "login"
    /\ authCalls' = authCalls \ {c}
    /\ LET mockUser == FindByEmail(c.email)
       IN  IF mockUser = Null
           THEN /\ lastResult' = [op |-> "login", email |-> c.email,
                                  result |-> "Invalid credentials"]
                /\ UNCHANGED <<authUser, localStorage>>
           ELSE /\ authUser' = mockUser
                /\ localStorage' = SetItem("currentUser", JSON_stringify(mockUser))
                /\ lastResult' = [op |-> "login", email |-> c.email, result |-> "ok"]
    /\ UNCHANGED <<loading, MOCK_USERS, credentials>>
    /\ UNCHANGED <<feedVars, pageVars>>

\* A signup without the allow-list check.
signup_unchecked(email, password, name) ==
    /\ ~loading
    /\ Cardinality(authCalls) < MaxInFlight
    /\ Len(MOCK_USERS) + Cardinality({c \in authCalls : c.op = "signup"})
            < Len(SeedUsers) + MaxSignups
    /\ authCalls' = authCalls \cup
            {[op |-> "signup", email |-> email, password |-> password, name |-> name]}
    /\ UNCHANGED <<authUser, loading, localStorage, MOCK_USERS, lastResult, credentials>>
    /\ UNCHANGED <<feedVars, pageVars>>

\* signup(email, password, name), up to its await: the allow-list check.
signup(email, password, name) ==
    /\ ~loading
    /\ IF ~Includes(ALLOWED_EMAILS, email)
       THEN /\ lastResult' = [op |-> "signup", email |-> email,
                              result |-> "Email not authorized for registration"]
            /\ UNCHANGED authCalls
       ELSE /\ Cardinality(authCalls) < MaxInFlight
            /\ Len(MOCK_USERS) + Cardinality({c \in authCalls : c.op = "signup"})
                    < Len(SeedUsers) + MaxSignups
            /\ authCalls' = authCalls \cup
                    {[op |-> "signup", email |-> email, password |-> password,
                      name |-> name]}
            /\ UNCHANGED lastResult
    /\ UNCHANGED <<authUser, loading, localStorage, MOCK_USERS, credentials>>
    /\ UNCHANGED <<feedVars, pageVars>>

\* signup after the timeout: the new user is pushed, set and stored.
signupResume(c, id) ==
    /\ c \in authCalls
    /\ c.op = "signup"
    /\ authCalls' = authCalls \ {c}
    /\ LET newUser == [id |-> id, name |-> c.name, email |-> c.email, bio |-> ""]
       IN  /\ MOCK_USERS' = Append(MOCK_USERS, newUser)
           /\ authUser' = newUser
           /\ localStorage' = SetItem("currentUser", JSON_stringify(newUser))
    /\ lastResult' = [op |-> "signup", email |-> c.email, result |-> "ok"]
    /\ credentials' = [credentials EXCEPT ![c.email] = @ \cup {c.password}]
    /\ UNCHANGED loading
    /\ UNCHANGED <<feedVars, pageVars>>

\* A logout that leaves the stored entry in place.
logout_keepsStored ==
    /\ ~loading
    /\ authUser' = Null
    /\ UNCHANGED <<localStorage, loading, MOCK_USERS, authCalls, lastResult, credentials>>
    /\ UNCHANGED <<feedVars, pageVars>>

\* logout()
logout ==
    /\ ~loading
    /\ authUser' = Null
    /\ localStorage' = RemoveItem("currentUser")
    /\ UNCHANGED <<loading, MOCK_USERS, authCalls, lastResult, credentials>>
    /\ UNCHANGED <<feedVars, pageVars>>

\* Partial<User> arguments of updateProfile: two calls that set disjoint fields.
Updates == {[name |-> "X"], [bio |-> "b"]}

\* { ...user, ...updates }
Spread(u, updates) ==
    [k \in (DOMAIN u) \cup (DOMAIN updates) |->
        IF k \in DOMAIN updates THEN updates[k] ELSE u[k]]

\* MOCK_USERS.findIndex(u => u.id === id): the first match, or 0 for -1.
FindIndexById(id) ==
    LET hits == {i \in DOMAIN MOCK_USERS : MOCK_USERS[i].id = id}
    IN  IF hits = {} THEN 0 ELSE CHOOSE i \in hits : \A j \in hits : i <= j

\* updateProfile(updates), up to its await; `user` is the session of the render
\* whose closure makes the call, and caller is the code that awaits the call, with
\* what its closure holds. With no session the call returns at once.
updateProfileCall(u, updates, caller) ==
    IF u = Null
    THEN UNCHANGED authCalls
    ELSE /\ Cardinality(authCalls) < MaxInFlight
         /\ authCalls' = authCalls \cup
                {[op |-> "updateProfile", user |-> u, updates |-> updates,
                  caller |-> caller]}

\* An updateProfile that forgets localStorage.setItem.
updateProfileDone_unsaved(c) ==
    LET updatedUser == Spread(c.user, c.updates)
        userIndex == FindIndexById(c.user.id)
    IN  /\ authUser' = updatedUser
        /\ UNCHANGED localStorage
        /\ MOCK_USERS' = IF userIndex # 0
                         THEN [MOCK_USERS EXCEPT ![userIndex] = updatedUser]
                         ELSE MOCK_USERS

\* updateProfile after the timeout: the session is replaced by the merge of the
\* captured user, stored, and written over the user's record when it is found.
updateProfileDone(c) ==
    LET updatedUser == Spread(c.user, c.updates)
        userIndex == FindIndexById(c.user.id)
    IN  /\ authUser' = updatedUser
        /\ localStorage' = SetItem("currentUser", JSON_stringify(updatedUser))
        /\ MOCK_USERS' = IF userIndex # 0
                         THEN [MOCK_USERS EXCEPT ![userIndex] = updatedUser]
                         ELSE MOCK_USERS

\* A component calls updateProfile(updates) on its own.
updateProfile(updates) ==
    /\ ~loading
    /\ updateProfileCall(authUser, updates, [fn |-> "direct"])
    /\ UNCHANGED <<authUser, loading, localStorage, MOCK_USERS, lastResult, credentials>>
    /\ UNCHANGED <<feedVars, pageVars>>

updateProfileResume(c) ==
    /\ c \in authCalls
    /\ c.op = "updateProfile"
    /\ c.caller.fn = "direct"
    /\ authCalls' = authCalls \ {c}
    /\ updateProfileDone(c)
    /\ lastResult' = [op |-> "updateProfile", email |-> c.user.email, result |-> "ok"]
    /\ UNCHANGED <<loading, credentials>>
    /\ UNCHANGED <<feedVars, pageVars>>

\* The form of ProfileSetup.
FormDatas == {[displayName |-> "X", bio |-> "b", avatarUrl |-> ""]}

\* .update({display_name, bio, avatar_url: avatarUrl || null}).eq('user_id', uid)
UpdateProfilesRow(rows, uid, formData) ==
    [i \in DOMAIN rows |->
        IF rows[i].user_id = uid
        THEN Spread(rows[i],
                    [display_name |-> formData.displayName,
                     bio |-> formData.bio,
                     avatar_url |-> IF formData.avatarUrl = "" THEN NullStr
                                    ELSE formData.avatarUrl])
        ELSE rows[i]]

\* ProfileSetup.handleSubmit, up to the await of the profiles update.
handleSubmit(formData) ==
    /\ ~loading
    /\ authUser # Null
    /\ Cardinality(setups) + Cardinality(authCalls) < MaxInFlight
    /\ setups' = setups \cup {[user |-> authUser, formData |-> formData]}
    /\ UNCHANGED <<pageOpen, userId, profileUser, profileData, isEditing, uploading,
                   profileFetches, uploads, avatars, storageCalls, toast, searchTerm,
                   sessionAtReload, lastSaved>>
    /\ UNCHANGED <<feedVars, authVars>>

\* handleSubmit: the update is answered. An error is thrown to the catch block;
\* otherwise the rows are written and updateProfile is called.
handleSubmitUpdated(c) ==
    /\ c \in setups
    /\ setups' = setups \ {c}
    /\ \/ /\ toast' = "Profile setup failed"
          /\ UNCHANGED <<profTable, authCalls>>
       \/ /\ profTable' = UpdateProfilesRow(profTable, c.user.id, c.formData)
          /\ updateProfileCall(c.user,
                               [name |-> c.formData.displayName,
                                bio |-> c.formData.bio,
                                avatar |-> c.formData.avatarUrl],
                               [fn |-> "handleSubmit"])
          /\ UNCHANGED toast
    /\ UNCHANGED <<msgTable, clients, mounted, user, messages, profiles, newMessage,
                   gen, mountGen, chanState, chanQueue, fetches, handlers, sends,
                   nSends, toasts, hist>>
    /\ UNCHANGED <<authUser, loading, localStorage, MOCK_USERS, lastResult, credentials>>
    /\ UNCHANGED <<pageOpen, userId, profileUser, profileData, isEditing, uploading,
                   profileFetches, uploads, avatars, storageCalls, searchTerm,
                   sessionAtReload, lastSaved>>

\* handleSubmit: updateProfile has resolved; the success toast, then navigate.
handleSubmitResume(c) ==
    /\ c \in authCalls
    /\ c.op = "updateProfile"
    /\ c.caller.fn = "handleSubmit"
    /\ authCalls' = authCalls \ {c}
    /\ updateProfileDone(c)
    /\ lastResult' = [op |-> "updateProfile", email |-> c.user.email, result |-> "ok"]
    /\ toast' = "Profile updated successfully!"
    /\ UNCHANGED <<loading, credentials>>
    /\ UNCHANGED <<pageOpen, userId, profileUser, profileData, isEditing, uploading,
                   profileFetches, uploads, avatars, storageCalls, setups, searchTerm,
                   sessionAtReload, lastSaved>>
    /\ UNCHANGED feedVars

\* The page is loaded again: the module state and every pending call are gone,
\* localStorage stays.
Reload ==
    /\ ~loading
    /\ ~pageOpen
    /\ \A f \in AllFeeds : ~mounted[f]
    /\ authUser' = Null
    /\ loading' = TRUE
    /\ MOCK_USERS' = SeedUsers
    /\ authCalls' = {}
    /\ setups' = {}
    /\ lastResult' = [op |-> "none", email |-> NullStr, result |-> "none"]
    /\ sessionAtReload' = authUser
    /\ UNCHANGED <<localStorage, credentials>>
    /\ UNCHANGED <<pageOpen, userId, profileUser, profileData, isEditing, uploading,
                   profileFetches, uploads, avatars, storageCalls, toast, searchTerm,
                   lastSaved>>
    /\ UNCHANGED feedVars

\* ------------------------------------------------------------------ routes
\* The routes wrapped in <ProtectedRoute>.
ProtectedPaths == {"/profile-setup", "/dashboard", "/profile", "/admin"}

\* user.k of a session record: undefined (NullStr) for a field it does not have.
Field(u, k) == IF k \in DOMAIN u THEN u[k] ELSE NullStr

\* const isProfileIncomplete = !user.class || !user.section || !user.batch
isProfileIncomplete(u) ==
    \/ ~Truthy(Field(u, "class"))
    \/ ~Truthy(Field(u, "section"))
    \/ ~Truthy(Field(u, "batch"))

\* A ProtectedRoute without the check of class, section and batch.
ProtectedRouteElement_anyProfile(pathname) ==
    IF loading THEN [kind |-> "spinner", to |-> NullStr]
    ELSE IF authUser = Null THEN [kind |-> "Navigate", to |-> "/login"]
    ELSE [kind |-> "children", to |-> pathname]

\* What <ProtectedRoute> returns on the route pathname for the current
\* useAuth() values: the spinner, a <Navigate>, or its children.
ProtectedRouteElement(pathname) ==
    IF loading THEN [kind |-> "spinner", to |-> NullStr]
    ELSE IF authUser = Null THEN [kind |-> "Navigate", to |-> "/login"]
    ELSE IF isProfileIncomplete(authUser) /\ pathname # "/profile-setup"
         THEN [kind |-> "Navigate", to |-> "/profile-setup"]
         ELSE [kind |-> "children", to |-> pathname]

\* The form values ProfileSetup passes to updateProfile: a complete one, and one
\* with the section left empty.
SetupForms ==
    {[class |-> "10", section |-> "A", batch |-> "2025"],
     [class |-> "10", section |-> "", batch |-> "2025"]}

\* ------------------------------------------------------------------ ProfilePage
\* useParams().userId: none, the session identity, another identity with a
\* profile row, and one without.
Routes == {NullStr, "1", "2", "3"}

\* The session of the user who views the pages: the administrator, with the
\* class, section and batch that ProtectedRoute asks for.
Viewer ==
    Spread(SeedUsers[1], [class |-> "10", section |-> "A", batch |-> "2025"])

\* const isOwnProfile = !userId || userId === user?.id
isOwnProfile ==
    \/ userId = NullStr
    \/ authUser # Null /\ userId = authUser.id

\* x || '' on a nullable column.
OrEmpty(x) == IF x = NullStr THEN "" ELSE x

\* The form values taken from a profile record (lines 66-77 and 133-144).
FormOf(data) ==
    [name |-> OrEmpty(data.display_name), bio |-> OrEmpty(data.bio),
     about |-> OrEmpty(data.about), class |-> OrEmpty(data.class),
     section |-> OrEmpty(data.section), batch |-> OrEmpty(data.batch),
     hobby |-> OrEmpty(data.hobby), website |-> OrEmpty(data.website),
     social |-> OrEmpty(data.social), avatar |-> OrEmpty(data.avatar_url)]

\* The columns handleSave writes over the displayed profile (lines 108-120).
ColumnsOf(form) ==
    [display_name |-> form.name, bio |-> form.bio, about |-> form.about,
     class |-> form.class, section |-> form.section, batch |-> form.batch,
     hobby |-> form.hobby, website |-> form.website, social |-> form.social,
     avatar_url |-> form.avatar]

\* .from('profiles').select('*').eq('user_id', id).single(): the row, or Null for
\* the error that single() gives when no row (or more than one) matches.
SingleRow(id) ==
    LET hits == {i \in DOMAIN profTable : profTable[i].user_id = id}
    IN  IF Cardinality(hits) = 1 THEN profTable[CHOOSE i \in hits : TRUE] ELSE Null

\* The effect of lines 51-82: fetchProfile up to its await.
fetchProfile(route, u) ==
    LET targetUserId == IF route # NullStr THEN route
                        ELSE IF u # Null THEN u.id ELSE NullStr
    IN  IF targetUserId = NullStr
        THEN UNCHANGED profileFetches
        ELSE profileFetches' = profileFetches \cup
                {[target |-> targetUserId, self |-> (u # Null /\ targetUserId = u.id),
                  saved |-> lastSaved]}

\* The route /profile/:userId? is entered and ProtectedRoute renders its children:
\* the component mounts and its effect runs.
OpenProfile(route) ==
    /\ ProtectedRouteElement("/profile").kind = "children"
    /\ ~pageOpen
    /\ pageOpen' = TRUE
    /\ userId' = route
    /\ fetchProfile(route, authUser)
    /\ UNCHANGED <<profileUser, profileData, isEditing, uploading, uploads, avatars,
                   storageCalls, toast, setups, searchTerm, sessionAtReload, lastSaved>>
    /\ UNCHANGED <<feedVars, authVars>>

\* The route parameter changes while the component stays mounted: the effect
\* runs again (dependencies [userId, user?.id]); the state is kept.
NavigateProfile(route) ==
    /\ pageOpen
    /\ route # userId
    /\ Cardinality(profileFetches) < MaxInFlight
    /\ userId' = route
    /\ fetchProfile(route, authUser)
    /\ UNCHANGED <<pageOpen, profileUser, profileData, isEditing, uploading, uploads,
                   avatars, storageCalls, toast, setups, searchTerm, sessionAtReload,
                   lastSaved>>
    /\ UNCHANGED <<feedVars, authVars>>

\* fetchProfile: the query is answered. An error (also: no row) is only logged;
\* a row is set as the displayed profile and fills the form.
fetchProfileReturn(t) ==
    /\ t \in profileFetches
    /\ profileFetches' = profileFetches \ {t}
    /\ \E failed \in BOOLEAN :
        LET data == IF failed THEN Null ELSE SingleRow(t.target)
        IN  IF data = Null
            THEN UNCHANGED <<profileUser, profileData>>
            ELSE /\ profileUser' = data
                 /\ profileData' = FormOf(data)
    /\ UNCHANGED <<pageOpen, userId, isEditing, uploading, uploads, avatars,
                   storageCalls, toast, setups, searchTerm, sessionAtReload, lastSaved>>
    /\ UNCHANGED <<feedVars, authVars>>

\* The Edit button (shown on the own profile when a profile is displayed).
StartEditing ==
    /\ pageOpen
    /\ isOwnProfile
    /\ profileUser # Null
    /\ ~isEditing
    /\ isEditing' = TRUE
    /\ UNCHANGED <<pageOpen, userId, profileUser, profileData, uploading,
                   profileFetches, uploads, avatars, storageCalls, toast, setups,
                   searchTerm, sessionAtReload, lastSaved>>
    /\ UNCHANGED <<feedVars, authVars>>

\* The name input of the form (line 391).
FormNames == {"X"}
EditName(n) ==
    /\ pageOpen
    /\ profileUser # Null
    /\ isEditing
    /\ profileData.name # n
    /\ profileData' = [profileData EXCEPT !.name = n]
    /\ UNCHANGED <<pageOpen, userId, profileUser, isEditing, uploading,
                   profileFetches, uploads, avatars, storageCalls, toast, setups,
                   searchTerm, sessionAtReload, lastSaved>>
    /\ UNCHANGED <<feedVars, authVars>>

\* handleCancel (lines 131-147)
handleCancel ==
    /\ pageOpen
    /\ isOwnProfile
    /\ profileUser # Null
    /\ isEditing
    /\ profileData' = FormOf(profileUser)
    /\ isEditing' = FALSE
    /\ UNCHANGED <<pageOpen, userId, profileUser, uploading, profileFetches, uploads,
                   avatars, storageCalls, toast, setups, searchTerm, sessionAtReload,
                   lastSaved>>
    /\ UNCHANGED <<feedVars, authVars>>

\* A handleSave without the ownership check.
handleSave_anyProfile ==
    /\ pageOpen
    /\ profileUser # Null
    /\ isEditing \/ ~isOwnProfile
    /\ updateProfileCall(authUser, profileData,
                         [fn |-> "handleSave", profileUser |-> profileUser,
                          profileData |-> profileData])
    /\ UNCHANGED <<authUser, loading, localStorage, MOCK_USERS, lastResult, credentials>>
    /\ UNCHANGED <<feedVars, pageVars>>

\* handleSave, up to the await of updateProfile. The Save button is shown on the
\* own profile in editing mode; on another profile the function returns at once.
handleSave ==
    /\ pageOpen
    /\ profileUser # Null
    /\ IF ~isOwnProfile
       THEN UNCHANGED authCalls
       ELSE /\ isEditing
            /\ updateProfileCall(authUser, profileData,
                                 [fn |-> "handleSave", profileUser |-> profileUser,
                                  profileData |-> profileData])
    /\ UNCHANGED <<authUser, loading, localStorage, MOCK_USERS, lastResult, credentials>>
    /\ UNCHANGED <<feedVars, pageVars>>

\* handleSave after updateProfile has resolved: editing ends, the toast, and the
\* displayed profile of the closure is merged with the form of the closure.
handleSaveResume(c) ==
    /\ c \in authCalls
    /\ c.op = "updateProfile"
    /\ c.caller.fn = "handleSave"
    /\ authCalls' = authCalls \ {c}
    /\ updateProfileDone(c)
    /\ lastResult' = [op |-> "updateProfile", email |-> c.user.email, result |-> "ok"]
    /\ isEditing' = FALSE
    /\ toast' = "Profile updated"
    /\ profileUser' = IF c.caller.profileUser # Null
                      THEN Spread(c.caller.profileUser, ColumnsOf(c.caller.profileData))
                      ELSE profileUser
    /\ lastSaved' = c.caller.profileData
    /\ UNCHANGED <<loading, credentials>>
    /\ UNCHANGED <<pageOpen, userId, profileData, uploading, profileFetches, uploads,
                   avatars, storageCalls, setups, searchTerm, sessionAtReload>>
    /\ UNCHANGED feedVars

\* ------------------------------------------------------------------ avatar upload
allowedTypes == <<"image/jpeg", "image/jpg", "image/png", "image/webp", "image/gif">>
MaxFileSize == 5 * 1024 * 1024

\* event.target.files[0]: a PNG of exactly the ceiling, a PNG of 6 MB, an SVG, and a
\* GIF one byte over the ceiling.
Files ==
    {[name |-> "a.png", type |-> "image/png", size |-> 5 * 1024 * 1024],
     [name |-> "b.png", type |-> "image/png", size |-> 6 * 1024 * 1024],
     [name |-> "c.svg", type |-> "image/svg+xml", size |-> 1024],
     [name |-> "d.gif", type |-> "image/gif", size |-> 5 * 1024 * 1024 + 1]}

\* file.name.split('.').pop()
FileExt(file) ==
    CASE file.name = "a.png" -> "png"
      [] file.name = "b.png" -> "png"
      [] file.name = "c.svg" -> "svg"
      [] file.name = "d.gif" -> "gif"

\* `${Math.random()}.${fileExt}` for the n-th upload of the run: a new name each time.
RandomFileName(n, fileExt) ==
    CASE fileExt = "png" -> <<"0.1.png", "0.2.png", "0.3.png", "0.4.png">>[n]
      [] fileExt = "svg" -> <<"0.1.svg", "0.2.svg", "0.3.svg", "0.4.svg">>[n]
      [] fileExt = "gif" -> <<"0.1.gif", "0.2.gif", "0.3.gif", "0.4.gif">>[n]

\* The objects of the viewer's folder that the model names; a path is
\* <<folder, file name>>, for `${user.id}/${fileName}`.
ObjectNames == {"old.png", "0.1.png", "0.2.png", "0.3.png", "0.4.png"}

\* supabase.storage.from('avatars').getPublicUrl(filePath).data.publicUrl
getPublicUrl(filePath) ==
    CASE filePath[2] = "old.png" -> "https://p.supabase.co/storage/v1/object/public/avatars/1/old.png"
      [] filePath[2] = "0.1.png" -> "https://p.supabase.co/storage/v1/object/public/avatars/1/0.1.png"
      [] filePath[2] = "0.2.png" -> "https://p.supabase.co/storage/v1/object/public/avatars/1/0.2.png"
      [] filePath[2] = "0.3.png" -> "https://p.supabase.co/storage/v1/object/public/avatars/1/0.3.png"
      [] filePath[2] = "0.4.png" -> "https://p.supabase.co/storage/v1/object/public/avatars/1/0.4.png"

\* The avatar the viewer uploaded before this run.
StoredAvatar == getPublicUrl(<<"1", "old.png">>)

\* url.split('/').pop(): the last segment; a text without '/' is its own segment.
SplitPop(url) ==
    LET hits == {n \in ObjectNames : getPublicUrl(<<"1", n>>) = url}
    IN  IF hits = {} THEN url ELSE CHOOSE n \in hits : TRUE

\* The upload requests issued so far.
UploadsIssued == Cardinality({i \in DOMAIN storageCalls : storageCalls[i].op = "upload"})

\* The upload request of lines 188-194.
IssueUpload(old, file, uid) ==
    LET fileName == RandomFileName(UploadsIssued + 1, FileExt(file))
        filePath == <<uid, fileName>>
    IN  /\ storageCalls' = Append(storageCalls, [op |-> "upload", path |-> filePath])
        /\ uploads' = (uploads \ old) \cup {[pc |-> "upload", path |-> filePath]}

\* An upload handler that sends every file to storage.
handleImageUpload_unvalidated(file) ==
    /\ pageOpen
    /\ authUser # Null
    /\ profileUser # Null
    /\ isEditing
    /\ ~uploading
    /\ UploadsIssued < MaxUploads
    /\ uploading' = TRUE
    /\ IssueUpload({}, file, authUser.id)
    /\ UNCHANGED <<pageOpen, userId, profileUser, profileData, isEditing,
                   profileFetches, avatars, toast, setups, searchTerm, sessionAtReload,
                   lastSaved>>
    /\ UNCHANGED <<feedVars, authVars>>

\* handleImageUpload, up to its first await: the validation, then the removal
\* of the displayed profile's stored avatar, or the upload when there is none.
handleImageUpload(file) ==
    /\ pageOpen
    /\ authUser # Null
    /\ profileUser # Null
    /\ isEditing
    /\ ~uploading
    /\ IF ~Includes(allowedTypes, file.type)
       THEN /\ toast' = "Invalid file type"
            /\ UNCHANGED <<uploading, uploads, storageCalls>>
       ELSE IF file.size > MaxFileSize
       THEN /\ toast' = "File too large"
            /\ UNCHANGED <<uploading, uploads, storageCalls>>
       ELSE /\ UploadsIssued + Cardinality(uploads) < MaxUploads
            /\ uploading' = TRUE
            /\ UNCHANGED toast
            /\ IF profileUser.avatar_url \notin {NullStr, ""}
                    /\ SplitPop(profileUser.avatar_url) # ""
               THEN LET oldPath == SplitPop(profileUser.avatar_url)
                        path == <<authUser.id, oldPath>>
                    IN  /\ storageCalls' =
                                Append(storageCalls, [op |-> "remove", path |-> path])
                        /\ uploads' = uploads \cup
                                {[pc |-> "remove", path |-> path, file |-> file,
                                  uid |-> authUser.id]}
               ELSE IssueUpload({}, file, authUser.id)
    /\ UNCHANGED <<pageOpen, userId, profileUser, profileData, isEditing,
                   profileFetches, avatars, setups, searchTerm, sessionAtReload,
                   lastSaved>>
    /\ UNCHANGED <<feedVars, authVars>>

\* A removal whose failure ends the handler.
removeReturn_abortOnError(c) ==
    /\ c \in uploads
    /\ c.pc = "remove"
    /\ \E ok \in BOOLEAN :
        IF ok
        THEN /\ avatars' = avatars \ {c.path}
             /\ IssueUpload({c}, c.file, c.uid)
             /\ UNCHANGED <<uploading, toast>>
        ELSE /\ uploads' = uploads \ {c}
             /\ uploading' = FALSE
             /\ toast' = "Upload failed"
             /\ UNCHANGED <<avatars, storageCalls>>
    /\ UNCHANGED <<pageOpen, userId, profileUser, profileData, isEditing,
                   profileFetches, setups, searchTerm, sessionAtReload, lastSaved>>
    /\ UNCHANGED <<feedVars, authVars>>

\* handleImageUpload: the removal is answered (its result is not looked at), and
\* the upload is requested.
removeReturn(c) ==
    /\ c \in uploads
    /\ c.pc = "remove"
    /\ \E ok \in BOOLEAN : avatars' = IF ok THEN avatars \ {c.path} ELSE avatars
    /\ IssueUpload({c}, c.file, c.uid)
    /\ UNCHANGED <<pageOpen, userId, profileUser, profileData, isEditing, uploading,
                   profileFetches, toast, setups, searchTerm, sessionAtReload,
                   lastSaved>>
    /\ UNCHANGED <<feedVars, authVars>>

\* handleImageUpload: the upload is answered. An error is thrown to the catch
\* block; otherwise the public URL goes into the form. finally: setUploading(false).
uploadReturn(c) ==
    /\ c \in uploads
    /\ c.pc = "upload"
    /\ uploads' = uploads \ {c}
    /\ uploading' = FALSE
    /\ \/ /\ toast' = "Upload failed"
          /\ UNCHANGED <<avatars, profileData>>
       \/ /\ avatars' = avatars \cup {c.path}
          /\ profileData' = [profileData EXCEPT !.avatar = getPublicUrl(c.path)]
          /\ toast' = "Image uploaded"
    /\ UNCHANGED <<pageOpen, userId, profileUser, isEditing, profileFetches,
                   storageCalls, setups, searchTerm, sessionAtReload, lastSaved>>
    /\ UNCHANGED <<feedVars, authVars>>

\* ------------------------------------------------------------------ Dashboard sidebar
\* Texts are handled as sequences of one-character strings, so that
\* toLowerCase and includes are computed character by character.
UpperLetters == <<"A", "B", "C", "D", "E", "F", "G", "H", "I", "J", "K", "L", "M",
                  "N", "O", "P", "Q", "R", "S", "T", "U", "V", "W", "X", "Y", "Z">>
LowerLetters == <<"a", "b", "c", "d", "e", "f", "g", "h", "i", "j", "k", "l", "m",
                  "n", "o", "p", "q", "r", "s", "t", "u", "v", "w", "x", "y", "z">>

\* The characters of the column values and search terms of the model.
Chars(s) ==
    CASE s = "" -> <<>>
      [] s = "Ann" -> <<"A", "n", "n">>
      [] s = "bob" -> <<"b", "o", "b">>
      [] s = "ann@x.io" -> <<"a", "n", "n", "@", "x", ".", "i", "o">>
      [] s = "BOB@x.io" -> <<"B", "O", "B", "@", "x", ".", "i", "o">>
      [] s = "AN" -> <<"A", "N">>
      [] s = "bo" -> <<"b", "o">>
      [] s = "x.io" -> <<"x", ".", "i", "o">>
      [] s = "zz" -> <<"z", "z">>

\* String.prototype.toLowerCase
LowerChar(c) ==
    IF \E i \in DOMAIN UpperLetters : UpperLetters[i] = c
    THEN LowerLetters[CHOOSE i \in DOMAIN UpperLetters : UpperLetters[i] = c]
    ELSE c
toLowerCase(cs) == [i \in DOMAIN cs |-> LowerChar(cs[i])]

\* String.prototype.includes: the empty text is included in every text.
includes(hay, needle) ==
    \E i \in 0..(Len(hay) - Len(needle)) :
        SubSeq(hay, i + 1, i + Len(needle)) = needle

\* `x?.toLowerCase().includes(searchTerm.toLowerCase())`: undefined (falsy) for
\* a null column.
OptIncludes(x, term) ==
    /\ x # NullStr
    /\ includes(toLowerCase(Chars(x)), toLowerCase(term))

\* A sidebar that keeps the rows without a display name.
otherProfiles_keepUnnamed(f) ==
    SelectSeq(profiles[f], LAMBDA p : p.user_id # user[f])

\* const otherProfiles: the other users' rows that have a display name.
otherProfiles(f) ==
    SelectSeq(profiles[f], LAMBDA p :
        /\ p.user_id # user[f]
        /\ Truthy(p.display_name)
        /\ Truthy(p.user_id))

\* A filter that asks for the term in the display name and in the email.
filteredUsers_bothFields(f) ==
    SelectSeq(otherProfiles(f), LAMBDA p :
        /\ OptIncludes(p.display_name, searchTerm[f])
        /\ OptIncludes(p.email, searchTerm[f]))

\* const filteredUsers: what the sidebar lists for the current search term.
filteredUsers(f) ==
    SelectSeq(otherProfiles(f), LAMBDA p :
        \/ OptIncludes(p.display_name, searchTerm[f])
        \/ OptIncludes(p.email, searchTerm[f]))

\* The terms typed into the search box.
SearchTerms == {"", "AN", "bo", "x.io", "zz"}

\* onChange of the search box: setSearchTerm(e.target.value).
setSearchTerm(f, term) ==
    /\ mounted[f]
    /\ searchTerm' = [searchTerm EXCEPT ![f] = Chars(term)]
    /\ UNCHANGED <<pageOpen, userId, profileUser, profileData, isEditing, uploading,
                   profileFetches, uploads, avatars, storageCalls, toast, setups,
                   sessionAtReload, lastSaved>>
    /\ UNCHANGED <<feedVars, authVars>>

\* ------------------------------------------------------------------ specifications
\* The session store before the application has started: localStorage holds no
\* session, or the session a seeded user left there.
AuthStart ==
    /\ authUser = Null
    /\ loading = TRUE
    /\ localStorage \in {{}} \cup
            {{<<"currentUser", JSON_stringify(SeedUsers[i])>>} : i \in {1, 2}}
    /\ MOCK_USERS = SeedUsers
    /\ authCalls = {}
    /\ lastResult = [op |-> "none", email |-> NullStr, result |-> "none"]
    /\ credentials = [e \in Emails |-> {}]

AuthIdle == AuthStart /\ localStorage = {}

\* The ProfilePage form as constructed (lines 35-46).
EmptyForm ==
    [name |-> "", bio |-> "", about |-> "", class |-> "", section |-> "",
     batch |-> "", hobby |-> "", website |-> "", social |-> "", avatar |-> ""]

\* No ProfilePage, ProfileSetup or sidebar search is in use.
PageIdle ==
    /\ pageOpen = FALSE
    /\ userId = NullStr
    /\ profileUser = Null
    /\ profileData = EmptyForm
    /\ isEditing = FALSE
    /\ uploading = FALSE
    /\ profileFetches = {}
    /\ uploads = {}
    /\ avatars = {}
    /\ storageCalls = <<>>
    /\ toast = NullStr
    /\ setups = {}
    /\ searchTerm = [f \in AllFeeds |-> <<>>]
    /\ sessionAtReload = IF HasItem("currentUser")
                         THEN JSON_parse(GetItem("currentUser")) ELSE Null
    /\ lastSaved = Null

\* No Dashboard is in use; public.profiles holds the given rows.
FeedIdle(rows) ==
    /\ msgTable = <<>>
    /\ profTable = rows
    /\ clients = {}
    /\ mounted = [f \in AllFeeds |-> FALSE]
    /\ user = [f \in AllFeeds |-> NoUser]
    /\ messages = [f \in AllFeeds |-> <<>>]
    /\ profiles = [f \in AllFeeds |-> <<>>]
    /\ newMessage = [f \in AllFeeds |-> ""]
    /\ gen = [f \in AllFeeds |-> 0]
    /\ mountGen = [f \in AllFeeds |-> 0]
    /\ chanState = [f \in AllFeeds |-> "none"]
    /\ chanQueue = [f \in AllFeeds |-> <<>>]
    /\ fetches = {}
    /\ handlers = {}
    /\ sends = {}
    /\ nSends = 0
    /\ toasts = [f \in AllFeeds |-> <<>>]
    /\ delivered = [f \in AllFeeds |-> <<>>]
    /\ appended = [f \in AllFeeds |-> {}]
    /\ loaded = [f \in AllFeeds |-> FALSE]
    /\ baseLen = [f \in AllFeeds |-> 0]

FeedInit(cs) ==
    /\ msgTable \in {<<>>} \cup
            {<<[id |-> i, user_id |-> u, content |-> "hi", created_at |-> 1]>> :
                i \in 1..MaxMsgs, u \in Users}
    /\ profTable = <<handle_new_user("u1", FullNameOf("u1"), EmailOf("u1"))>>
    /\ clients = cs
    /\ mounted = [f \in AllFeeds |-> FALSE]
    /\ user \in [AllFeeds -> Users \cup {NoUser}]
    /\ \A f \in AllFeeds : user[f] \in {NoUser, UserOf(f)}
    /\ messages = [f \in AllFeeds |-> <<>>]
    /\ profiles = [f \in AllFeeds |-> <<>>]
    /\ newMessage = [f \in AllFeeds |-> ""]
    /\ gen = [f \in AllFeeds |-> 0]
    /\ mountGen = [f \in AllFeeds |-> 0]
    /\ chanState = [f \in AllFeeds |-> "none"]
    /\ chanQueue = [f \in AllFeeds |-> <<>>]
    /\ fetches = {}
    /\ handlers = {}
    /\ sends = {}
    /\ nSends = Len(msgTable)
    /\ toasts = [f \in AllFeeds |-> <<>>]
    /\ delivered = [f \in AllFeeds |-> <<>>]
    /\ appended = [f \in AllFeeds |-> {}]
    /\ loaded = [f \in AllFeeds |-> FALSE]
    /\ baseLen = [f \in AllFeeds |-> 0]

FeedNext ==
    \/ \E f \in clients : Mount(f)
    \/ \E f \in clients : Unmount(f)
    \/ \E f \in clients, u \in Users \cup {NoUser} : SetUser(f, u)
    \/ \E f \in clients, t \in Texts : TypeMessage(f, t)
    \/ \E f \in clients : handleSendMessage(f)
    \/ \E s \in sends : SendReturn(s)
    \/ \E f \in clients : ChannelJoined(f)
    \/ \E f \in clients : Deliver(f)
    \/ \E h \in handlers : HandlerRefetch(h)
    \/ \E h \in handlers : HandlerProfile(h)
    \/ \E t \in fetches : FetchMessages(t)
    \/ \E t \in fetches : FetchJoin(t)
    \/ \E t \in fetches : FetchSidebar(t)

Init == FeedInit({"A"}) /\ AuthIdle /\ PageIdle /\ \A f \in AllFeeds : user[f] = NoUser
Next == FeedNext
Spec == Init /\ [][Next]_vars

\* Two clients, both signed in, each mounting its Dashboard once against the same
\* backend; one message is sent in the run, by either client.
TwoFeedsInit ==
    /\ FeedInit(AllFeeds)
    /\ AuthIdle
    /\ PageIdle
    /\ msgTable = <<>>
    /\ \A f \in AllFeeds : user[f] = UserOf(f)

TwoFeedsNext ==
    \/ \E f \in clients : gen[f] = 0 /\ Mount(f)
    \/ \E f \in clients : TypeMessage(f, "hi")
    \/ \E f \in clients : nSends = 0 /\ handleSendMessage(f)
    \/ \E s \in sends : SendReturn(s)
    \/ \E f \in clients : ChannelJoined(f)
    \/ \E f \in clients : Deliver(f)
    \/ \E h \in handlers : HandlerRefetch(h)
    \/ \E h \in handlers : HandlerProfile(h)
    \/ \E t \in fetches : FetchMessages(t)
    \/ \E t \in fetches : FetchJoin(t)
    \/ \E t \in fetches : FetchSidebar(t)

TwoFeeds == TwoFeedsInit /\ [][TwoFeedsNext]_vars

\* One signed-in client whose Dashboard mounts once and stays mounted: the effect
\* of lines 55-143 runs a single time, and every send of the run goes through it.
OneMountInit ==
    /\ FeedInit({"A"})
    /\ AuthIdle
    /\ PageIdle
    /\ \A f \in AllFeeds : user[f] = IF f \in clients THEN UserOf(f) ELSE NoUser

OneMountNext ==
    \/ \E f \in clients : gen[f] = 0 /\ Mount(f)
    \/ \E f \in clients, t \in Texts : TypeMessage(f, t)
    \/ \E f \in clients : handleSendMessage(f)
    \/ \E s \in sends : SendReturn(s)
    \/ \E f \in clients : ChannelJoined(f)
    \/ \E f \in clients : Deliver(f)
    \/ \E h \in handlers : HandlerRefetch(h)
    \/ \E h \in handlers : HandlerProfile(h)
    \/ \E t \in fetches : FetchMessages(t)
    \/ \E t \in fetches : FetchJoin(t)
    \/ \E t \in fetches : FetchSidebar(t)

OneMount == OneMountInit /\ [][OneMountNext]_vars

\* ------------------------------------------------------------------ claims: feed
Ids(list) == {list[i].id : i \in DOMAIN list}
NoDuplicateIds(list) == \A i, j \in DOMAIN list : list[i].id = list[j].id => i = j
\* The rows committed since the current instance of client f mounted.
NewIds(f) == {msgTable[i].id : i \in (baseLen[f] + 1)..Len(msgTable)}
FetchesOf(f) == {t \in fetches : t.f = f}
HandlersOf(f) == {h \in handlers : h.f = f}

\* The history load of client f has set the list, nothing of f is in flight, and
\* the echo of every row committed since f mounted has gone through the handler.
AllEchoesHandled(f) ==
    /\ mounted[f]
    /\ loaded[f]
    /\ FetchesOf(f) = {}
    /\ HandlersOf(f) = {}
    /\ sends = {}
    /\ chanQueue[f] = <<>>
    /\ NewIds(f) \subseteq appended[f]

\* C1: for a mounted feed, once the N rows sent since the mount have all been
\* echoed and handled, the list is N longer than the history it was mounted
\* against and holds no identifier twice, also for rows inserted while the
\* history load was in flight.
C1_FeedGrowsByN ==
    \A f \in clients :
        AllEchoesHandled(f) =>
            /\ Len(messages[f]) = baseLen[f] + Cardinality(NewIds(f))
            /\ NoDuplicateIds(messages[f])

\* loadHistory (fetchData up to setMessages) of the current effect run is in flight.
HistoryInFlight(f) ==
    \E t \in FetchesOf(f) : t.g = gen[f] /\ t.pc \in {"messages", "profiles"}

\* C2: the live subscription is opened only after the history load and the join
\* have completed: never is the channel subscribed, or a notification being
\* handled, while loadHistory is in flight.
C2_SubscribeAfterHistory ==
    \A f \in clients :
        HistoryInFlight(f) =>
            /\ chanState[f] \notin {"joining", "joined"}
            /\ \A h \in HandlersOf(f) : h.g # gen[f]

\* C3: two rows delivered as live notifications in commit order appear in the
\* list in that order, whatever the interleaving of the handlers' awaits.
C3_VisibleOrderIsCommitOrder ==
    \A f \in clients :
        \A i, j \in DOMAIN delivered[f] :
            (i < j /\ {delivered[f][i], delivered[f][j]} \subseteq appended[f]
                   /\ NoDuplicateIds(messages[f])) =>
                \A p, q \in DOMAIN messages[f] :
                    (messages[f][p].id = delivered[f][i]
                        /\ messages[f][q].id = delivered[f][j]) => p < q

\* The effect run that invoked handler h has been cleaned up (removeChannel).
TornDown(h) == h.g # gen[h.f] \/ chanState[h.f] \notin {"joining", "joined"}

\* C4: after the effect cleanup, a handler that was in flight at teardown does
\* not change the message list when it completes.
C4_NoAppendAfterTeardown ==
    [][\A h \in handlers :
            (TornDown(h) /\ HandlerProfile(h)) => messages' = messages]_vars

\* C5: with two feeds mounted against the same history, a message "hi" that one
\* of them sends is never displayed twice by either of them.
C5_NeverDisplayedTwice ==
    (\A f \in clients : mounted[f]) =>
        \A f \in clients :
            \A i, j \in DOMAIN messages[f] :
                (messages[f][i].content = "hi" /\ messages[f][i].id = messages[f][j].id)
                    => i = j

\* C6: handleSendMessage never changes the message list, neither when it issues
\* the insert nor when the insert returns; a list that stays mounted changes only
\* in the history load and in the INSERT handler; a failed insert leaves the list
\* as it was and raises the error toast.
C6_SendDoesNotAppend ==
    [][/\ ((\E f \in clients : handleSendMessage(f)) \/ (\E s \in sends : SendReturn(s)))
            => messages' = messages
       /\ \A f \in clients :
            (mounted[f] /\ mounted'[f] /\ messages'[f] # messages[f]) =>
                \/ \E t \in FetchesOf(f) : FetchJoin(t)
                \/ \E h \in HandlersOf(f) : HandlerProfile(h)
       /\ \A s \in sends :
            (s \notin sends' /\ msgTable' = msgTable) =>
                /\ messages' = messages
                /\ toasts'[s.f] = Append(toasts[s.f], "Failed to send message")]_vars

\* A send of a client whose list holds messages has failed.
C6_Witness ==
    \E f \in clients :
        /\ mounted[f]
        /\ toasts[f] # <<>>
        /\ messages[f] # <<>>

\* C7: the list set by the history load has the rows returned by the messages
\* query, in their order, none dropped; each carries the profile row of its
\* author, and null exactly when public.profiles has no row of that author.
C7_JoinKeepsEveryMessage ==
    [][\A t \in fetches :
        (t.pc = "profiles" /\ InstanceAlive(t.f, t.g)
            /\ [t EXCEPT !.pc = "sidebar"] \in fetches' /\ t \notin fetches') =>
            LET list == messages'[t.f]
            IN  /\ Len(list) = Len(t.data)
                /\ \A i \in DOMAIN list :
                    /\ list[i].id = t.data[i].id
                    /\ list[i].user_id = t.data[i].user_id
                    /\ list[i].content = t.data[i].content
                    /\ list[i].created_at = t.data[i].created_at
                    /\ (list[i].profiles = Null) <=>
                            (\A k \in DOMAIN profTable :
                                profTable[k].user_id # list[i].user_id)
                    /\ list[i].profiles # Null =>
                            \E k \in DOMAIN profTable :
                                /\ profTable[k].user_id = list[i].user_id
                                /\ list[i].profiles = ProfileCols(profTable[k])]_vars

\* The history load has just set a list of two rows, one with its author's
\* profile and one with a null author snapshot.
C7_Witness ==
    \E t \in fetches :
        /\ t.pc = "sidebar"
        /\ InstanceAlive(t.f, t.g)
        /\ Len(t.data) = 2
        /\ Len(messages[t.f]) = 2
        /\ \A i \in 1..2 : messages[t.f][i].id = t.data[i].id
        /\ \E i, j \in 1..2 :
            messages[t.f][i].profiles = Null /\ messages[t.f][j].profiles # Null

\* C8: in every reachable state the message list is ascending in created_at,
\* rows of equal created_at ascending in id.
C8_ListOrderedByCreatedAtThenId ==
    \A f \in clients :
        \A i, j \in DOMAIN messages[f] :
            i < j =>
                \/ messages[f][i].created_at < messages[f][j].created_at
                \/ /\ messages[f][i].created_at = messages[f][j].created_at
                   /\ messages[f][i].id < messages[f][j].id

\* The session store alone: the application starts with or without a stored
\* session of a seeded user; the Dashboard state stays as constructed.
AuthInit ==
    /\ FeedInit({})
    /\ AuthStart
    /\ PageIdle
    /\ msgTable = <<>>
    /\ \A f \in AllFeeds : user[f] = NoUser

AuthNext ==
    \/ AuthProviderEffect
    \/ \E e \in Emails, pw \in Passwords : login(e, pw)
    \/ \E c \in authCalls : loginResume(c)
    \/ \E e \in Emails, n \in Names : signup(e, "pw1", n)
    \/ \E c \in authCalls, id \in RandomIds : signupResume(c, id)
    \/ logout

Auth == AuthInit /\ [][AuthNext]_vars

\* ------------------------------------------------------------------ claims: session
\* The credentials the identity provider would accept: the password an email was
\* signed up with; the seeded users' passwords appear nowhere in the program, so
\* any password counts as theirs.
ValidCredentials(email, password) ==
    \/ \E i \in DOMAIN SeedUsers : SeedUsers[i].email = email
    \/ password \in credentials[email]

\* C9: a login with invalid credentials fails with "Invalid credentials" and
\* leaves the session and the stored 'currentUser' entry as they were; only valid
\* credentials (email and password) populate and store a session.
C9_LoginRejectsInvalidCredentials ==
    [][\A c \in authCalls :
        (loginResume(c) /\ ~ValidCredentials(c.email, c.password)) =>
            /\ lastResult'.result = "Invalid credentials"
            /\ authUser' = authUser
            /\ localStorage' = localStorage]_vars

NotAuthorized(email) ==
    [op |-> "signup", email |-> email, result |-> "Email not authorized for registration"]

\* C10: a signup with an email that is not on the allow-list fails with the
\* authorization error and creates no session, stores nothing and adds no user
\* record; no user record, session, stored session or pending signup ever has an
\* email that is off the allow-list.
C10_SignupOffAllowListRejected ==
    /\ [][\A e \in Emails, pw \in Passwords, n \in Names :
            (~Includes(ALLOWED_EMAILS, e) /\ signup(e, pw, n)) =>
                /\ lastResult' = NotAuthorized(e)
                /\ UNCHANGED <<authUser, localStorage, MOCK_USERS, authCalls>>]_vars
    /\ [](/\ \A i \in DOMAIN MOCK_USERS : Includes(ALLOWED_EMAILS, MOCK_USERS[i].email)
          /\ \A c \in authCalls : c.op = "signup" => Includes(ALLOWED_EMAILS, c.email)
          /\ authUser # Null => Includes(ALLOWED_EMAILS, authUser.email)
          /\ HasItem("currentUser") =>
                Includes(ALLOWED_EMAILS, JSON_parse(GetItem("currentUser")).email))

\* A signed-in, stored session has seen a signup with nobody@example.com rejected.
C10_Witness ==
    /\ lastResult = NotAuthorized("nobody@example.com")
    /\ authUser # Null
    /\ HasItem("currentUser")
    /\ GetItem("currentUser") = JSON_stringify(authUser)
    /\ Len(MOCK_USERS) > Len(SeedUsers)

\* The session store with profile updates and page reloads. The page
\* starts signed out or with the stored session of the administrator; one login or
\* signup is made at a time, and one signup per page load; updateProfile calls overlap.
\* The emails typed into the login form, and the ids Math.random() can give the
\* next signup: those that no user record, session or pending call holds.
SessionEmails == {"admin@example.com", "test@example.com"}
FreeIds ==
    RandomIds \ ({MOCK_USERS[i].id : i \in DOMAIN MOCK_USERS}
                 \cup {c.user.id : c \in {d \in authCalls : d.op = "updateProfile"}}
                 \cup {c.user.id : c \in setups}
                 \cup (IF authUser = Null THEN {} ELSE {authUser.id})
                 \cup (IF HasItem("currentUser")
                       THEN {JSON_parse(GetItem("currentUser")).id} ELSE {}))

SessionInit ==
    /\ FeedIdle(<<ProfileRow("1", "Admin User", NullStr)>>)
    /\ AuthStart
    /\ \A e \in localStorage : JSON_parse(e[2]).id = "1"
    /\ PageIdle

SessionNext ==
    \/ AuthProviderEffect
    \/ \E e \in SessionEmails : authCalls = {} /\ login(e, "pw1")
    \/ \E c \in authCalls : loginResume(c)
    \/ authCalls = {} /\ MOCK_USERS = SeedUsers /\ signup("test@example.com", "pw1", "Tess")
    \/ \E c \in authCalls, id \in FreeIds :
            id = (CHOOSE j \in FreeIds : TRUE) /\ signupResume(c, id)
    \/ logout
    \/ \E u \in Updates : updateProfile(u)
    \/ \E c \in authCalls : updateProfileResume(c)
    \/ Reload

Session == SessionInit /\ [][SessionNext]_vars

\* ProfileSetup and the session store: a signed-in user submits the setup form
\* and updates the profile, and may sign out and in again meanwhile.
SetupInit ==
    /\ FeedIdle(<<ProfileRow("1", "Admin User", NullStr)>>)
    /\ AuthStart
    /\ PageIdle

SetupNext ==
    \/ AuthProviderEffect
    \/ authCalls = {} /\ login("admin@example.com", "pw1")
    \/ \E c \in authCalls : loginResume(c)
    \/ logout
    \/ \E u \in Updates : updateProfile(u)
    \/ \E c \in authCalls : updateProfileResume(c)
    \/ \E d \in FormDatas : handleSubmit(d)
    \/ \E c \in setups : handleSubmitUpdated(c)
    \/ \E c \in authCalls : handleSubmitResume(c)

Setup == SetupInit /\ [][SetupNext]_vars

\* JSON.parse(localStorage.getItem('currentUser')), or null without the entry.
StoredSession ==
    IF HasItem("currentUser") THEN JSON_parse(GetItem("currentUser")) ELSE Null

\* C11: logout() clears the in-memory session and removes the stored 'currentUser'
\* entry in one step, settles without any error or toast, and can be taken in
\* every state of the started application.
C11_LogoutClearsSession ==
    /\ [][logout =>
            /\ authUser' = Null
            /\ \A e \in localStorage' : e[1] # "currentUser"
            /\ UNCHANGED <<lastResult, toast, authCalls, MOCK_USERS>>]_vars
    /\ [](~loading => ENABLED logout)

\* A login has succeeded and the session and the stored entry are gone again,
\* with no reload in between.
C11_Witness ==
    /\ ~loading
    /\ lastResult.op = "login"
    /\ lastResult.result = "ok"
    /\ authUser = Null
    /\ ~HasItem("currentUser")

\* C12: when updateProfile(updates) completes, the session is the prior session
\* with exactly the given fields overwritten, the stored entry holds it, and the
\* user record of that identity holds it; when the remote write of
\* ProfileSetup.handleSubmit fails, the failure is shown and the session and the
\* stored entry are unchanged.
C12_UpdateProfileMergesOrFails ==
    [][/\ \A c \in authCalls :
            (c.op = "updateProfile" /\ (updateProfileResume(c) \/ handleSubmitResume(c))) =>
                /\ authUser' = Spread(authUser, c.updates)
                /\ \E e \in localStorage' :
                        e[1] = "currentUser" /\ e[2] = JSON_stringify(authUser')
                /\ \E i \in DOMAIN MOCK_USERS' : MOCK_USERS'[i] = authUser'
       /\ \A c \in setups :
            handleSubmitUpdated(c) =>
                \/ /\ toast' = "Profile setup failed"
                   /\ UNCHANGED <<authUser, localStorage, MOCK_USERS, profTable, authCalls>>
                \/ /\ \E d \in authCalls' : d.op = "updateProfile" /\ d.user = c.user
                   /\ UNCHANGED <<authUser, localStorage, MOCK_USERS, toast>>]_vars

\* C13: whenever no session operation is in flight, the stored 'currentUser'
\* entry mirrors the session (absent exactly when the session is null, else the
\* same record), and the rehydration after a reload restores the session that
\* was current when the page was reloaded.
C13_StoredSessionMirrors ==
    /\ []((~loading /\ authCalls = {} /\ setups = {}) => StoredSession = authUser)
    /\ [][AuthProviderEffect => authUser' = sessionAtReload]_vars

\* A session changed by updateProfile has been reloaded and restored.
C13_Witness ==
    /\ ~loading
    /\ authCalls = {}
    /\ setups = {}
    /\ authUser # Null
    /\ authUser.name = "X"
    /\ sessionAtReload = authUser
    /\ MOCK_USERS = SeedUsers

\* ------------------------------------------------------------------ claims: profile
\* A row of public.profiles after ProfileSetup: class, section and batch are set.
CompletedRow(id, display_name, avatar_url) ==
    Spread(ProfileRow(id, display_name, avatar_url),
           [class |-> "10", section |-> "A", batch |-> "2025"])

\* The administrator is signed in with a completed profile (after login and
\* ProfileSetup), nothing is pending.
SignedIn ==
    /\ authUser = Viewer
    /\ loading = FALSE
    /\ localStorage = {<<"currentUser", JSON_stringify(Viewer)>>}
    /\ MOCK_USERS = [SeedUsers EXCEPT ![1] = Viewer]
    /\ authCalls = {}
    /\ lastResult = [op |-> "updateProfile", email |-> Viewer.email, result |-> "ok"]
    /\ credentials = [e \in Emails |-> {}]

\* The signed-in viewer uses ProfilePage. public.profiles has a row for the
\* viewer ("1") and for "2", none for "3"; the viewer's row has no avatar, or the
\* avatar uploaded earlier, which storage holds.
ProfileInit ==
    /\ \E av \in {NullStr, StoredAvatar} :
        /\ FeedIdle(<<CompletedRow("1", "Admin User", av),
                      CompletedRow("2", "John Doe", NullStr)>>)
        /\ avatars = IF av = NullStr THEN {} ELSE {<<"1", "old.png">>}
    /\ SignedIn
    /\ pageOpen = FALSE
    /\ userId = NullStr
    /\ profileUser = Null
    /\ profileData = EmptyForm
    /\ isEditing = FALSE
    /\ uploading = FALSE
    /\ profileFetches = {}
    /\ uploads = {}
    /\ storageCalls = <<>>
    /\ toast = NullStr
    /\ setups = {}
    /\ searchTerm = [f \in AllFeeds |-> <<>>]
    /\ sessionAtReload = Null
    /\ lastSaved = Null

\* The viewer opens ProfilePage, moves between profiles, edits and saves; one
\* save is pending at a time.
ProfileNext ==
    \/ \E r \in Routes : OpenProfile(r)
    \/ \E r \in Routes : NavigateProfile(r)
    \/ \E t \in profileFetches : fetchProfileReturn(t)
    \/ StartEditing
    \/ \E n \in FormNames : EditName(n)
    \/ handleCancel
    \/ authCalls = {} /\ handleSave
    \/ \E c \in authCalls : handleSaveResume(c)

\* The viewer has no stored avatar.
PlainProfileInit == ProfileInit /\ avatars = {}

Profile == PlainProfileInit /\ [][ProfileNext]_vars

\* The viewer edits the own profile and uploads avatar files; the route stays.
AvatarNext ==
    \/ OpenProfile(NullStr)
    \/ \E t \in profileFetches : fetchProfileReturn(t)
    \/ StartEditing
    \/ handleCancel
    \/ authCalls = {} /\ handleSave
    \/ \E c \in authCalls : handleSaveResume(c)
    \/ \E file \in Files : handleImageUpload(file)
    \/ \E c \in uploads : removeReturn(c)
    \/ \E c \in uploads : uploadReturn(c)

Avatar == ProfileInit /\ [][AvatarNext]_vars

\* C14: after a handleSave with name "X" has succeeded on the own profile, a
\* fetchProfile(self) started afterwards (and before any other save) returns a
\* record whose display name is "X".
C14_SaveThenFetchRoundTrip ==
    [][\A t \in profileFetches :
        (/\ fetchProfileReturn(t)
         /\ t.self
         /\ t.saved # Null
         /\ t.saved.name = "X"
         /\ t.saved = lastSaved
         /\ profileUser' = SingleRow(t.target)) =>
            profileUser'.display_name = t.saved.name]_vars

\* C15: handleSave on another user's profile writes nothing and changes neither
\* the session nor the displayed profile nor the form, and no step writes a user
\* record or profile row of an identity other than the session user's.
C15_SaveOnlyOwnProfile ==
    [][/\ (handleSave /\ ~isOwnProfile) =>
            UNCHANGED <<authUser, localStorage, MOCK_USERS, profTable, authCalls,
                        profileUser, profileData, isEditing, toast>>
       /\ \A i \in DOMAIN MOCK_USERS :
            MOCK_USERS'[i] # MOCK_USERS[i] =>
                authUser # Null /\ MOCK_USERS[i].id = authUser.id
       /\ \A i \in DOMAIN profTable :
            profTable'[i] # profTable[i] =>
                authUser # Null /\ profTable[i].user_id = authUser.id]_vars

\* The viewer has saved the own profile and now looks at the profile of "2",
\* still in editing mode.
C15_Witness ==
    /\ pageOpen
    /\ lastSaved # Null
    /\ authUser.name = "X"
    /\ userId = "2"
    /\ ~isOwnProfile
    /\ profileUser # Null
    /\ profileUser.user_id = "2"

\* C16: when handleSave succeeds, the displayed profile becomes the profile
\* displayed before with the form's fields written over it, editing mode ends,
\* and no fetch is started.
C16_SaveMergesDisplayedProfile ==
    [][\A c \in authCalls :
        (c.op = "updateProfile" /\ handleSaveResume(c)) =>
            /\ profileUser' = Spread(profileUser, ColumnsOf(c.updates))
            /\ ~isEditing'
            /\ profileFetches' = profileFetches]_vars

\* C17: a file whose type is not one of the five image types, or whose size is
\* over 5 MiB, is turned away with a toast before any storage request: no
\* request is issued or pending, and the form, the displayed profile and the
\* uploading flag are unchanged; a file of exactly 5 * 1024 * 1024 bytes of an
\* allowed type starts a storage request.
C17_AvatarValidatedBeforeStorage ==
    [][\A file \in Files :
        handleImageUpload(file) =>
            IF \/ file.type \notin {"image/jpeg", "image/jpg", "image/png",
                                    "image/webp", "image/gif"}
               \/ file.size > 5242880
            THEN /\ toast' \in {"Invalid file type", "File too large"}
                 /\ UNCHANGED <<storageCalls, uploads, avatars, profileData,
                                profileUser, uploading>>
            ELSE /\ Len(storageCalls') = Len(storageCalls) + 1
                 /\ uploading']_vars

\* A file has been sent to storage, and a later file of 6 MB was turned away.
C17_Witness ==
    /\ toast = "File too large"
    /\ Len(storageCalls) > 0
    /\ uploads = {}
    /\ ~uploading

\* C18: with a stored avatar on the displayed profile, the accepted file's first
\* storage request is the removal of that avatar, and the answer to the removal,
\* failed or not, is followed at once by the upload request; a failed upload
\* leaves the form and the displayed profile unchanged and clears the uploading
\* flag.
C18_AvatarReplaceSequence ==
    [][/\ \A file \in Files :
            (/\ handleImageUpload(file)
             /\ storageCalls' # storageCalls
             /\ profileUser.avatar_url \notin {NullStr, ""}) =>
                storageCalls' = Append(storageCalls,
                    [op |-> "remove",
                     path |-> <<authUser.id, SplitPop(profileUser.avatar_url)>>])
       /\ \A c \in uploads :
            (c.pc = "remove" /\ removeReturn(c)) =>
                /\ Len(storageCalls') = Len(storageCalls) + 1
                /\ storageCalls'[Len(storageCalls')].op = "upload"
                /\ uploading'
       /\ \A c \in uploads :
            (c.pc = "upload" /\ uploadReturn(c) /\ avatars' = avatars /\ c.path \notin avatars) =>
                /\ UNCHANGED <<profileData, profileUser>>
                /\ toast' = "Upload failed"
                /\ ~uploading']_vars

\* The stored avatar was removed, then the upload was requested, and it failed.
C18_Witness ==
    /\ Len(storageCalls) >= 2
    /\ storageCalls[1].op = "remove"
    /\ storageCalls[1].path = <<"1", "old.png">>
    /\ storageCalls[2].op = "upload"
    /\ toast = "Upload failed"
    /\ ~uploading

\* ------------------------------------------------------------------ claims: directory
\* A row of public.profiles as the sidebar reads it.
DirectoryRow(id, display_name, email) ==
    [ProfileRow(id, display_name, NullStr) EXCEPT !.email = email]
DirectoryNames == {"Ann", "bob", "", NullStr}
DirectoryEmails == {"ann@x.io", "BOB@x.io", NullStr}

\* Client A is signed in as u1 and about to open the Dashboard; public.profiles
\* holds the row of u1 and three other rows.
DirectoryInit ==
    /\ \E n2, n3, n4 \in DirectoryNames, e2, e3, e4 \in DirectoryEmails :
        profTable = <<DirectoryRow("u2", n2, e2),
                      DirectoryRow("u1", "Ann", "ann@x.io"),
                      DirectoryRow("u3", n3, e3),
                      DirectoryRow("u4", n4, e4)>>
    /\ msgTable = <<>>
    /\ clients = {"A"}
    /\ mounted = [f \in AllFeeds |-> FALSE]
    /\ user = [f \in AllFeeds |-> IF f \in clients THEN UserOf(f) ELSE NoUser]
    /\ messages = [f \in AllFeeds |-> <<>>]
    /\ profiles = [f \in AllFeeds |-> <<>>]
    /\ newMessage = [f \in AllFeeds |-> ""]
    /\ gen = [f \in AllFeeds |-> 0]
    /\ mountGen = [f \in AllFeeds |-> 0]
    /\ chanState = [f \in AllFeeds |-> "none"]
    /\ chanQueue = [f \in AllFeeds |-> <<>>]
    /\ fetches = {}
    /\ handlers = {}
    /\ sends = {}
    /\ nSends = 0
    /\ toasts = [f \in AllFeeds |-> <<>>]
    /\ delivered = [f \in AllFeeds |-> <<>>]
    /\ appended = [f \in AllFeeds |-> {}]
    /\ loaded = [f \in AllFeeds |-> FALSE]
    /\ baseLen = [f \in AllFeeds |-> 0]
    /\ AuthIdle
    /\ PageIdle

DirectoryNext ==
    \/ \E f \in clients : gen[f] = 0 /\ Mount(f)
    \/ \E t \in fetches : FetchMessages(t)
    \/ \E t \in fetches : FetchJoin(t)
    \/ \E t \in fetches : FetchSidebar(t)
    \/ \E f \in clients, term \in SearchTerms : setSearchTerm(f, term)

Directory == DirectoryInit /\ [][DirectoryNext]_vars

\* C19: the sidebar lists exactly the loaded rows that are not the signed-in
\* user's, have a display name (not null, not empty), and whose display name or
\* email contains the search term when letter case is ignored; the rows keep
\* the order they have in the loaded list; when no row matches the list is
\* the empty sequence.
C19_SearchFiltersDirectory ==
    \A f \in clients :
        mounted[f] =>
            LET ps == profiles[f]
                term == searchTerm[f]
                ContainsCI(x) ==
                    /\ x # NullStr
                    /\ \E o \in 0..(Len(Chars(x)) - Len(term)) :
                        \A j \in 1..Len(term) :
                            LowerChar(Chars(x)[o + j]) = LowerChar(term[j])
                K == {i \in DOMAIN ps :
                        /\ ps[i].user_id # user[f]
                        /\ ps[i].display_name \notin {NullStr, ""}
                        /\ \/ ContainsCI(ps[i].display_name)
                           \/ ContainsCI(ps[i].email)}
                r == filteredUsers(f)
            IN  /\ Len(r) = Cardinality(K)
                /\ \A k \in 1..Len(r) :
                    \E i \in K :
                        /\ Cardinality({j \in K : j < i}) = k - 1
                        /\ r[k] = ps[i]

\* The term "AN" is searched in a loaded list of four rows: u2 has no display
\* name but an email that matches, u3 matches by its email only, u4 by its
\* display name only; the sidebar lists u3 then u4.
C19_Witness ==
    /\ mounted["A"]
    /\ Len(profiles["A"]) = 4
    /\ searchTerm["A"] = <<"A", "N">>
    /\ profiles["A"][1].display_name = NullStr
    /\ profiles["A"][1].email = "ann@x.io"
    /\ profiles["A"][3].display_name = "bob"
    /\ profiles["A"][3].email = "ann@x.io"
    /\ profiles["A"][4].display_name = "Ann"
    /\ profiles["A"][4].email = NullStr
    /\ filteredUsers("A") = <<profiles["A"][3], profiles["A"][4]>>

\* C20 as stated: with the empty search term the sidebar lists every loaded
\* row except the signed-in user's, the rows with a null display name or a
\* null email included.
C20_EmptySearchReturnsAllOthers ==
    \A f \in clients :
        (mounted[f] /\ searchTerm[f] = <<>>) =>
            filteredUsers(f) = SelectSeq(profiles[f], LAMBDA p : p.user_id # user[f])

\* C20: with the empty search term the sidebar lists every loaded row that has
\* a display name, except the signed-in user's; a row whose email is null is
\* listed, a row whose display name is null or empty is not.
C20_EmptySearchReturnsNamedOthers ==
    \A f \in clients :
        (mounted[f] /\ searchTerm[f] = <<>>) =>
            filteredUsers(f) =
                SelectSeq(profiles[f], LAMBDA p :
                    /\ p.user_id # user[f]
                    /\ p.display_name # NullStr
                    /\ p.display_name # "")

\* The search box was cleared again; of the loaded rows, u2 has no display
\* name and u3 has a display name but no email: u3 is listed, u2 is not.
C20_Witness ==
    /\ mounted["A"]
    /\ Len(profiles["A"]) = 4
    /\ searchTerm["A"] = <<>>
    /\ profiles["A"][1].display_name = NullStr
    /\ profiles["A"][3].display_name = "bob"
    /\ profiles["A"][3].email = NullStr
    /\ \E k \in DOMAIN filteredUsers("A") : filteredUsers("A")[k].user_id = "u3"
    /\ \A k \in DOMAIN filteredUsers("A") : filteredUsers("A")[k].user_id # "u2"

\* ------------------------------------------------------------------ claims: lookups and races
\* C21: when the answer to fetchProfile arrives and no row of public.profiles
\* has the looked-up identifier, the view holds no profile record afterwards,
\* whatever it displayed before; when a row matches, the view holds that row
\* (or, when the request itself failed, what it held before).
C21_FetchProfileNotFound ==
    [][\A t \in profileFetches :
        fetchProfileReturn(t) =>
            IF SingleRow(t.target) = Null
            THEN profileUser' = Null
            ELSE profileUser' \in {SingleRow(t.target), profileUser}]_vars

\* The identifier the profile view is showing now: the route's, or the session's.
CurrentTarget ==
    IF userId # NullStr THEN userId
    ELSE IF authUser # Null THEN authUser.id ELSE NullStr

\* C22: once the record of the identifier the view is showing is displayed,
\* the answer to an earlier fetchProfile for another identifier is discarded:
\* the displayed profile and the edit form still hold the current identifier's
\* record after it.
C22_LateResponsesDiscarded ==
    [][\A t \in profileFetches :
        (/\ fetchProfileReturn(t)
         /\ t.target # CurrentTarget
         /\ SingleRow(CurrentTarget) # Null
         /\ profileUser = SingleRow(CurrentTarget)
         /\ profileData = FormOf(profileUser)) =>
            /\ profileUser' = SingleRow(CurrentTarget)
            /\ profileData' = FormOf(profileUser')]_vars

\* ------------------------------------------------------------------ claims: registration
\* Identities are registered: through signup() of the AuthProvider, and in the
\* backend's auth.users, where the trigger on_auth_user_created runs.
RegistrationNext ==
    \/ AuthProviderEffect
    \/ \E e \in Emails, n \in Names : signup(e, "pw1", n)
    \/ \E c \in authCalls, id \in RandomIds : signupResume(c, id)
    \/ \E u \in Users : on_auth_user_created(u)

Registration == AuthInit /\ [][RegistrationNext]_vars

\* The rows of public.profiles of identity id.
RowsOf(id) == {j \in DOMAIN profTable : profTable[j].user_id = id}

\* C23: every registered identity has exactly one row in public.profiles, with
\* the identity's id as user_id and with the signup's full name as display
\* name, or the email when no name was given: the identities signed up through
\* signup(), and the identities of auth.users.
C23_OneProfilePerIdentity ==
    /\ \A i \in DOMAIN MOCK_USERS :
        i > Len(SeedUsers) =>
            /\ Cardinality(RowsOf(MOCK_USERS[i].id)) = 1
            /\ \A j \in RowsOf(MOCK_USERS[i].id) :
                profTable[j].display_name =
                    IF MOCK_USERS[i].name \notin {NullStr, ""}
                    THEN MOCK_USERS[i].name ELSE MOCK_USERS[i].email
    /\ \A u \in Users :
        /\ Cardinality(RowsOf(u)) <= 1
        /\ \A j \in RowsOf(u) :
            profTable[j].display_name =
                IF FullNameOf(u) # NullStr THEN FullNameOf(u) ELSE EmailOf(u)

\* ------------------------------------------------------------------ claims: live feed
\* C24: an INSERT notification handled by a mounted feed is never dropped: when
\* its re-fetch is answered the handler goes on to the profile lookup with the
\* message of the notified id, and when that lookup is answered exactly one
\* record is appended, the message of the notified id with its author's
\* profile columns or null.
C24_HandlerAppendsExactlyOne ==
    [][\A h \in handlers :
        InstanceAlive(h.f, h.g) =>
            /\ (h.pc = "refetch" /\ HandlerRefetch(h)) =>
                    \E h2 \in handlers' :
                        /\ h2.f = h.f
                        /\ h2.pc = "profile"
                        /\ h2.data # Null
                        /\ h2.data.id = h.id
            /\ (h.pc = "profile" /\ HandlerProfile(h)) =>
                    /\ Len(messages'[h.f]) = Len(messages[h.f]) + 1
                    /\ SubSeq(messages'[h.f], 1, Len(messages[h.f])) = messages[h.f]
                    /\ messages'[h.f][Len(messages'[h.f])].id = h.id
                    /\ messages'[h.f][Len(messages'[h.f])].profiles \in
                            {Null, SingleProfile(h.data.user_id)}]_vars

\* ------------------------------------------------------------------ claims: access gating
\* The session is rehydrated, signed in and out, and the profile is set up.
GateNext ==
    \/ AuthProviderEffect
    \/ \E e \in SessionEmails : authCalls = {} /\ login(e, "pw1")
    \/ \E c \in authCalls : loginResume(c)
    \/ logout
    \/ \E u \in SetupForms : updateProfile(u)
    \/ \E c \in authCalls : updateProfileResume(c)

Gate == SessionInit /\ [][GateNext]_vars

\* C25: on every protected route the children are rendered only when the
\* rehydration has finished and the session is not null; with a null session
\* the route redirects to /login; a session whose class, section or batch is
\* missing or empty gets the children of /profile-setup only.
C25_ProtectedRouteGates ==
    \A p \in ProtectedPaths :
        LET e == ProtectedRouteElement(p)
            Empty(k) == k \notin DOMAIN authUser \/ authUser[k] \in {NullStr, ""}
        IN  /\ e.kind = "children" => (~loading /\ authUser # Null /\ e.to = p)
            /\ (~loading /\ authUser = Null) => e = [kind |-> "Navigate", to |-> "/login"]
            /\ (/\ ~loading
                /\ authUser # Null
                /\ Empty("class") \/ Empty("section") \/ Empty("batch")
                /\ p # "/profile-setup") => e.kind # "children"
            /\ (/\ ~loading
                /\ authUser # Null
                /\ ~Empty("class") /\ ~Empty("section") /\ ~Empty("batch")) =>
                    e.kind = "children"

\* After a profile setup that left the section empty the session is still
\* incomplete: /dashboard redirects to /profile-setup, which shows its form.
C25_Witness ==
    /\ ~loading
    /\ authUser # Null
    /\ lastResult.op = "updateProfile"
    /\ "section" \in DOMAIN authUser
    /\ authUser.section = ""
    /\ authUser.class = "10"
    /\ ProtectedRouteElement("/dashboard") = [kind |-> "Navigate", to |-> "/profile-setup"]
    /\ ProtectedRouteElement("/profile-setup").kind = "children"

\* ------------------------------------------------------------------ claims: retention
\* C26: a record that the INSERT handler has appended to a mounted feed's list
\* stays in the list: no step of the feed, the completion of the history load
\* included, leaves the list without it.
C26_LiveMessageRetained ==
    [][\A f \in clients :
        (mounted[f] /\ mounted'[f] /\ mountGen'[f] = mountGen[f]) =>
            \A id \in appended[f] :
                (\E i \in DOMAIN messages[f] : messages[f][i].id = id) =>
                    \E j \in DOMAIN messages'[f] : messages'[f][j].id = id]_vars

\* ------------------------------------------------------------------ claims: session races
\* C27: when an updateProfile call completes while the session and the stored
\* entry are empty (logout has run since the call was made) and no login or
\* signup has been started, the session and the stored entry stay empty.
C27_LogoutNotUndone ==
    [][\A c \in authCalls :
        (/\ c.op = "updateProfile"
         /\ updateProfileResume(c)
         /\ authUser = Null
         /\ StoredSession = Null
         /\ \A d \in authCalls : d.op \notin {"login", "signup"}) =>
            /\ authUser' = Null
            /\ localStorage' = localStorage]_vars

\* C28: when the second of two overlapping updateProfile calls with disjoint
\* fields completes (the first has completed and its fields are in the
\* session; the second was called before that), the session, the stored entry
\* and the user's record hold the fields of both calls.
C28_NoLostUpdate ==
    [][\A c \in authCalls, first \in Updates :
        (/\ c.op = "updateProfile"
         /\ updateProfileResume(c)
         /\ (DOMAIN first) \cap (DOMAIN c.updates) = {}
         /\ lastResult.op = "updateProfile"
         /\ authUser # Null
         /\ authUser.id = c.user.id
         /\ \A k \in DOMAIN first : authUser[k] = first[k]
         /\ \E k \in DOMAIN first : c.user[k] # first[k]) =>
            LET both == Spread(first, c.updates)
            IN  /\ \A k \in DOMAIN both : authUser'[k] = both[k]
                /\ \A k \in DOMAIN both : StoredSession'[k] = both[k]
                /\ \A i \in DOMAIN MOCK_USERS' :
                        MOCK_USERS'[i].id = c.user.id =>
                            \A k \in DOMAIN both : MOCK_USERS'[i][k] = both[k]]_vars

\* ------------------------------------------------------------------ claims: identities
\* C29: no two user records have the same email, and a login with an email
\* that was signed up yields the identity that signup created: a record added
\* by signup, with that email.
C29_SignupThenLoginSameIdentity ==
    /\ [](\A i, j \in DOMAIN MOCK_USERS :
            MOCK_USERS[i].email = MOCK_USERS[j].email => i = j)
    /\ [][\A c \in authCalls :
            (/\ c.op = "login"
             /\ loginResume(c)
             /\ credentials[c.email] # {}) =>
                /\ authUser' # Null
                /\ \E i \in DOMAIN MOCK_USERS :
                    /\ i > Len(SeedUsers)
                    /\ MOCK_USERS[i].email = c.email
                    /\ authUser' = MOCK_USERS[i]]_vars

\* ------------------------------------------------------------------ claims: avatar asset
\* The object paths of the bucket that a public URL of the model names.
PathsOf(url) ==
    {p \in {<<"1", n>> : n \in ObjectNames} : url # NullStr /\ getPublicUrl(p) = url}

\* C30: whenever no avatar upload is in flight (so also after a failed upload,
\* and after an upload followed by Cancel), the object named by the avatar_url
\* of the displayed profile, and of every row of public.profiles, is in the
\* storage bucket.
C30_AvatarAssetExists ==
    uploads = {} =>
        /\ \A i \in DOMAIN profTable :
                PathsOf(profTable[i].avatar_url) \subseteq avatars
        /\ (pageOpen /\ profileUser # Null) =>
                PathsOf(profileUser.avatar_url) \subseteq avatars

====
